---- MODULE Spec2Model ----
(***************************************************************************)
(* Alert reconciliation engine of reddit-mod-from-discord: the durable     *)
(* store (reported_items, alert_views, modlog_entries, modlog_state), the  *)
(* per-tenant poll cycle of RedditModBot, the Mark Handled callback of     *)
(* ReportView, and the Discord / Reddit collaborators as nondeterministic  *)
(* environments.  Every await of the Python code is a separate step, so    *)
(* other tasks of the event loop may run between two steps of a cycle.     *)
(***************************************************************************)
EXTENDS Integers, Sequences, FiniteSets, TLC

\* Python None of a row, record or payload; of a channel or message id; of a
\* timestamp; of an optional string
None == [none |-> TRUE]
NoId == 0
NoStamp == -1
NoStr == "None"
\* settings.discord_mod_channel_id
ModChannel == 7

\* setup ids of the configured tenants, and their guild ids
Tenants == {"A", "B"}
GuildOf(t) == IF t = "A" THEN 1 ELSE 2

\* fullnames the event source may report (t3_ = submission, t1_ = comment),
\* in ascending creation order
ItemOrder == <<"t3_a", "t1_b">>
\* the fullnames a database may hold: the two items and a row left by a run
\* against the demo service
Items == {"t3_a", "t1_b", "t3_demo_1"}

\* the tasks that may call _poll_once: the scheduled loop and a /modsync
\* command of each tenant
Procs == {"loopA", "syncA", "loopB", "syncB"}
TenantOf(p) == IF p \in {"loopA", "syncA"} THEN "A" ELSE "B"
ProcsOf(t) == {p \in Procs : TenantOf(p) = t}
\* the tasks created by on_ready (runtime.poll_task of each tenant)
PollTasks == {"loopA", "loopB"}

\* ---------------------------------------------------------------- bounds
\* longest retention window of the moderation-log cache, in days
MaxAgeDays == 1
\* number of message ids the notification channel can hand out
MaxMsgs == 2
\* largest limit given to list_unhandled_alerts
MaxLimit == 2
\* number of times a moderator presses Mark Handled
MaxClicks == 1
\* number of times the process is stopped and restarted
MaxCrashes == 1
\* largest report count and threshold of the filter scenario
MaxReports == 3
\* largest max_item_age_hours of the filter scenario
MaxHours == 2
\* number of stored views damaged while the process is down
MaxCorruptions == 1
\* number of hours that pass on the clock
MaxTicks == 1

MsgIds == 1..MaxMsgs

\* ------------------------------------------------------------- variables
VARIABLES
    reported_items,   \* table reported_items: <<setup_id, fullname>> -> row | None
    alert_views,      \* table alert_views: message_id -> ViewRecord | None
    modlog_entries,   \* table modlog_entries: its rows in insertion order
    modlog_state,     \* table modlog_state: setup_id -> last_seen_utc | NoStamp
    messages,         \* the notification channel: message_id -> message
    views_mem,        \* in-memory ReportView payload attached to a message
    poll_lock,        \* runtime.poll_lock of each tenant
    loc,              \* frame of each _poll_once caller
    conn,             \* BotStore._conn: "open" after connect, "closed" after close
    mod,              \* position of the Mark Handled callback of each message
    settings,         \* ResolvedSettings of each tenant
    env,              \* what the collaborators may do in this scenario
    now,              \* time.time()
    hist              \* history of the run, read by the properties only

vars == <<reported_items, alert_views, modlog_entries, modlog_state, messages,
          views_mem, poll_lock, loc, mod, settings, conn, env, now, hist>>

store_vars == <<reported_items, alert_views, modlog_entries, modlog_state>>

\* ----------------------------------------------------------------- models.py
\* _thing_from_fullname and _validate_thing_id: the prefix is t1 or t3 and the
\* id after the first "_" matches [0-9a-zA-Z]+ ("demo_1" does not)
valid_fullname(fullname) == fullname \in {"t3_a", "t1_b"}

kind_of(fullname) == IF fullname = "t1_b" THEN "comment" ELSE "submission"

\* str.strip over the strings of the model
Strip(str) ==
    CASE str = " " -> ""
      [] str = " http://x " -> "http://x"
      [] OTHER -> str

\* safety.sanitize_http_url over the strings of the model: None, a blank
\* string, a string with inner whitespace and a scheme other than http(s) give
\* None; the scheme of an accepted URL is lower-cased
sanitize_http_url(raw_url) ==
    IF raw_url = NoStr THEN NoStr
    ELSE LET url == Strip(raw_url) IN
         CASE url = "" -> NoStr
           [] url = "http://x y" -> NoStr
           [] url = "ftp://x" -> NoStr
           [] url = "HTTP://x" -> "http://x"
           [] OTHER -> url

\* ReportViewPayload.from_reported_item
from_reported_item(item, setup_id) ==
    [fullname |-> item.fullname, kind |-> item.kind, link_url |-> item.link_url,
     title |-> item.title,
     num_reports |-> item.num_reports, created_utc |-> item.created_utc,
     locked |-> item.locked, handled |-> FALSE, action_log |-> <<>>,
     setup_id |-> setup_id]

\* ReportViewPayload.to_dict
to_dict(payload) ==
    [view_version |-> 1, fullname |-> payload.fullname, kind |-> payload.kind,
     link_url |-> payload.link_url,
     title |-> payload.title, num_reports |-> payload.num_reports,
     created_utc |-> payload.created_utc, locked |-> payload.locked,
     handled |-> payload.handled, action_log |-> payload.action_log,
     setup_id |-> payload.setup_id]

\* dict.get(key, default)
Get(d, key, default) == IF key \in DOMAIN d THEN d[key] ELSE default

\* a payload_json that json.loads rejects, and one that is valid JSON but not
\* an object (ReportViewPayload.from_dict raises AttributeError on it)
InvalidJson == [invalid_json |-> TRUE]
JsonList == [json_list |-> TRUE]

\* json.loads(row["payload_json"]) of get_view and load_views raises
json_loads_raises(payload_json) == payload_json = InvalidJson

\* ReportViewPayload.from_dict raises
from_dict_raises(d) == d = JsonList

\* a from_dict that does not read the handled flag
from_dict_unhandled(d) ==
    [fullname |-> Get(d, "fullname", ""),
     kind |-> IF Get(d, "kind", NoStr) \in {"submission", "comment"}
              THEN d.kind ELSE "submission",
     link_url |-> IF Get(d, "link_url", NoStr) = NoStr \/ Strip(d.link_url) = ""
                  THEN NoStr ELSE d.link_url,
     title |-> Get(d, "title", ""), num_reports |-> Get(d, "num_reports", 0),
     created_utc |-> Get(d, "created_utc", 0),
     locked |-> Get(d, "locked", FALSE), handled |-> FALSE,
     action_log |-> Get(d, "action_log", <<>>),
     setup_id |-> Get(d, "setup_id", "")]

\* ReportViewPayload.from_dict of a dict (a missing key gives its default)
from_dict(d) ==
    [fullname |-> Get(d, "fullname", ""),
     kind |-> IF Get(d, "kind", NoStr) \in {"submission", "comment"}
              THEN d.kind ELSE "submission",
     link_url |-> IF Get(d, "link_url", NoStr) = NoStr \/ Strip(d.link_url) = ""
                  THEN NoStr ELSE d.link_url,
     title |-> Get(d, "title", ""), num_reports |-> Get(d, "num_reports", 0),
     created_utc |-> Get(d, "created_utc", 0),
     locked |-> Get(d, "locked", FALSE), handled |-> Get(d, "handled", FALSE),
     action_log |-> Get(d, "action_log", <<>>),
     setup_id |-> Get(d, "setup_id", "")]

\* ------------------------------------------------------------------ store.py
\* the frame of a task that is not inside _poll_once; raised: its last call of
\* _poll_once ended with an exception instead of a return value
NoLocal ==
    [pc |-> "idle", reports |-> <<>>, k |-> 0, payload |-> None,
     sent |-> NoId, posted |-> 0, refs |-> <<>>, r |-> 0, edit |-> None,
     raised |-> FALSE]

Range(s) == {s[n] : n \in 1..Len(s)}

\* a should_alert that leaves an existing row as it is
should_alert_rows_insert_only(rows, item, setup_id, guild_id, t_now) ==
    [rows EXCEPT ![<<setup_id, item.fullname>>] =
        IF @ = None
        THEN [guild_id |-> guild_id, thing_kind |-> item.kind,
              first_reported_at |-> t_now, last_seen_at |-> t_now,
              report_count |-> item.num_reports, handled |-> FALSE,
              discord_channel_id |-> NoId, discord_message_id |-> NoId]
        ELSE @]

\* a should_alert that returns true on the first sighting only
should_alert_first_sighting(row) == row = None

\* BotStore.should_alert: the value returned for the row read by the SELECT
should_alert_result(row) ==
    IF row = None THEN TRUE
    ELSE IF row.discord_message_id = NoId THEN TRUE
    ELSE IF row.handled THEN FALSE
    ELSE FALSE

\* BotStore.should_alert: the table after the INSERT or the UPDATE
should_alert_rows(rows, item, setup_id, guild_id, t_now) ==
    [rows EXCEPT ![<<setup_id, item.fullname>>] =
        IF @ = None
        THEN [guild_id |-> guild_id, thing_kind |-> item.kind,
              first_reported_at |-> t_now, last_seen_at |-> t_now,
              report_count |-> item.num_reports, handled |-> FALSE,
              discord_channel_id |-> NoId, discord_message_id |-> NoId]
        ELSE [@ EXCEPT !.last_seen_at = t_now, !.report_count = item.num_reports]]

\* an UPDATE reported_items with `WHERE fullname = ?` only
set_discord_message_any_tenant(rows, fullname, setup_id, channel_id, message_id) ==
    [k \in DOMAIN rows |->
        IF k[2] = fullname /\ rows[k] # None
        THEN [rows[k] EXCEPT !.discord_channel_id = channel_id,
                             !.discord_message_id = message_id,
                             !.handled = FALSE]
        ELSE rows[k]]

\* BotStore.set_discord_message (an UPDATE: no row, no effect)
set_discord_message(rows, fullname, setup_id, channel_id, message_id) ==
    [rows EXCEPT ![<<setup_id, fullname>>] =
        IF @ = None THEN @
        ELSE [@ EXCEPT !.discord_channel_id = channel_id,
                       !.discord_message_id = message_id,
                       !.handled = FALSE]]

\* BotStore.clear_discord_message
clear_discord_message(rows, fullname, setup_id) ==
    [rows EXCEPT ![<<setup_id, fullname>>] =
        IF @ = None THEN @
        ELSE [@ EXCEPT !.discord_channel_id = NoId, !.discord_message_id = NoId]]

\* BotStore.mark_handled
mark_handled(rows, fullname, setup_id) ==
    [rows EXCEPT ![<<setup_id, fullname>>] =
        IF @ = None THEN @ ELSE [@ EXCEPT !.handled = TRUE]]

\* BotStore.get_alert_message
get_alert_message(rows, fullname, setup_id) ==
    LET row == rows[<<setup_id, fullname>>] IN
    IF row = None
    THEN [channel_id |-> NoId, message_id |-> NoId, handled |-> FALSE]
    ELSE [channel_id |-> row.discord_channel_id,
          message_id |-> row.discord_message_id, handled |-> row.handled]

\* BotStore.save_view (upsert: an existing row keeps channel_id and guild_id)
save_view(views, message_id, channel_id, guild_id, payload, created_at) ==
    [views EXCEPT ![message_id] =
        IF @ = None
        THEN [channel_id |-> channel_id, guild_id |-> guild_id,
              payload |-> payload, created_at |-> created_at]
        ELSE [@ EXCEPT !.payload = payload, !.created_at = created_at]]

\* BotStore.delete_view
delete_view(views, message_id) == [views EXCEPT ![message_id] = None]

\* BotStore.prune_views
prune_views(views, ttl_s, t_now) ==
    IF ttl_s <= 0 THEN views
    ELSE [m \in DOMAIN views |->
            IF views[m] # None /\ views[m].created_at < t_now - ttl_s
            THEN None ELSE views[m]]

\* BotStore.load_views raises: json.loads rejects the payload_json of a row
load_views_raises(views) ==
    \E m \in DOMAIN views : views[m] # None /\ json_loads_raises(views[m].payload)

\* the sequences that enumerate the finite set S without repetition (the
\* orders in which a SELECT may return its rows before ORDER BY)
Enumerations(S) ==
    {f \in [1..Cardinality(S) -> S] :
        \A a, b \in 1..Cardinality(S) : a # b => f[a] # f[b]}

Take(s, n) == IF Len(s) <= n THEN s ELSE SubSeq(s, 1, n)

Reverse(s) == [n \in 1..Len(s) |-> s[Len(s) + 1 - n]]

\* limit of the drift refresh (bot.py: list_unhandled_alerts(..., limit=50))
DriftLimit == 50

\* a selection that leaves out `ri.handled = 0`
unhandled_alert_keys_any_state(rows, views, setup_id) ==
    {k \in DOMAIN rows :
       /\ rows[k] # None
       /\ k[1] = setup_id
       /\ rows[k].discord_message_id # NoId
       /\ rows[k].discord_channel_id # NoId
       /\ views[rows[k].discord_message_id] # None}

\* BotStore.list_unhandled_alerts: the keys of the rows the INNER JOIN and the
\* WHERE clause select
unhandled_alert_keys(rows, views, setup_id) ==
    {k \in DOMAIN rows :
       /\ rows[k] # None
       /\ k[1] = setup_id
       /\ ~rows[k].handled
       /\ rows[k].discord_message_id # NoId
       /\ rows[k].discord_channel_id # NoId
       /\ views[rows[k].discord_message_id] # None}

\* BotStore.list_unhandled_alerts: the sequences the SELECT may return
\* (ORDER BY ri.last_seen_at DESC LIMIT ?)
list_unhandled_alerts(rows, views, setup_id, limit) ==
    LET hit == unhandled_alert_keys(rows, views, setup_id)
    IN {Take([n \in 1..Len(f) |->
                [fullname |-> f[n][2],
                 channel_id |-> rows[f[n]].discord_channel_id,
                 message_id |-> rows[f[n]].discord_message_id]],
             limit) :
        f \in {g \in Enumerations(hit) :
                 \A a, b \in 1..Len(g) :
                    a < b => rows[g[a]].last_seen_at >= rows[g[b]].last_seen_at}}

\* BotStore.get_modlog_state
get_modlog_state(state, setup_id) == state[setup_id]

\* BotStore.update_modlog_state
update_modlog_state(state, setup_id, last_seen_utc) ==
    [state EXCEPT ![setup_id] = last_seen_utc]

\* the primary key of a modlog_entries row
modlog_key(row) == <<row.setup_id, row.fullname, row.created_utc, row.line>>

\* INSERT INTO modlog_entries without OR IGNORE: every row is appended
insert_always(rows, row) == Append(rows, row)

\* INSERT OR IGNORE INTO modlog_entries: a row whose primary key (setup_id,
\* fullname, created_utc, line) is in the table is ignored
insert_or_ignore(rows, row) ==
    IF \E n \in 1..Len(rows) : modlog_key(rows[n]) = modlog_key(row)
    THEN rows
    ELSE Append(rows, row)

\* BotStore.save_modlog_entries (executemany over the entries, in order)
RECURSIVE save_modlog_entries(_, _, _)
save_modlog_entries(rows, setup_id, entries) ==
    IF entries = <<>> THEN rows
    ELSE save_modlog_entries(
             insert_or_ignore(rows, [setup_id |-> setup_id,
                                     fullname |-> Head(entries).fullname,
                                     created_utc |-> Head(entries).created_utc,
                                     line |-> Head(entries).line]),
             setup_id, Tail(entries))

\* BotStore.prune_modlog_entries
prune_modlog_entries(rows, setup_id, max_age_s, t_now) ==
    IF max_age_s <= 0 THEN rows
    ELSE SelectSeq(rows, LAMBDA e :
             ~(e.setup_id = setup_id /\ e.created_utc < t_now - max_age_s))

\* BotStore.list_modlog_entries: the sequences of (created_utc, line) rows the
\* SELECT may choose (newest `limit` rows, reversed to oldest first);
\* max_age_s = NoStamp is None
list_modlog_rows(rows, setup_id, fullname, max_age_s, limit, t_now) ==
    LET hit == {n \in 1..Len(rows) :
                  /\ rows[n].setup_id = setup_id
                  /\ rows[n].fullname = fullname
                  /\ (max_age_s # NoStamp => rows[n].created_utc >= t_now - max_age_s)}
        created(n) == rows[n].created_utc
    IN {Reverse([n \in 1..Len(Take(f, limit)) |-> rows[f[n]]]) :
            f \in {g \in Enumerations(hit) :
                     \A a, b \in 1..Len(g) : a < b => created(g[a]) >= created(g[b])}}

\* BotStore.list_modlog_entries: the line sequences it may return
list_modlog_entries(rows, setup_id, fullname, max_age_s, limit, t_now) ==
    {[n \in 1..Len(r) |-> r[n].line] :
        r \in list_modlog_rows(rows, setup_id, fullname, max_age_s, limit, t_now)}

\* ------------------------------------------------------------ reddit_client.py
\* RedditService._fetch_recent_modlog_entries_sync over the actions that
\* subreddit.mod.log(limit) yields, newest first
RECURSIVE fetch_recent_modlog_entries(_, _)
fetch_recent_modlog_entries(log, min_created_utc) ==
    IF log = <<>> THEN <<>>
    ELSE LET action == Head(log) IN
         IF min_created_utc # NoStamp /\ action.created_utc # 0
                /\ action.created_utc < min_created_utc
         THEN <<>>
         ELSE IF action.by_bot \/ action.target_fullname = ""
         THEN fetch_recent_modlog_entries(Tail(log), min_created_utc)
         ELSE <<[fullname |-> action.target_fullname,
                 created_utc |-> action.created_utc, line |-> action.line]>>
              \o fetch_recent_modlog_entries(Tail(log), min_created_utc)

\* ---------------------------------------------------------------------- bot.py
\* seconds per hour and per day (max_item_age_hours * 3600,
\* modlog_max_age_days * 86400)
Hour == 3600
Day == 86400

\* the threshold of an item's own kind
threshold_of(kind, s) ==
    IF kind = "comment" THEN s.comment_report_threshold ELSE s.post_report_threshold

\* a threshold filter that keeps every item
passes_threshold_any(payload, s) == TRUE

\* a threshold filter that compares every kind with post_report_threshold
passes_threshold_of_posts(payload, s) ==
    payload.num_reports >= s.post_report_threshold

\* RedditModBot._passes_threshold
passes_threshold(payload, s) ==
    IF payload.kind = "comment"
    THEN payload.num_reports >= s.comment_report_threshold
    ELSE payload.num_reports >= s.post_report_threshold

\* an age filter that drops an item whose age equals the limit
passes_age_strict(payload, s, t_now) ==
    IF s.max_item_age_hours <= 0 THEN TRUE
    ELSE IF payload.created_utc <= 0 THEN TRUE
    ELSE (t_now - payload.created_utc) < s.max_item_age_hours * Hour

\* RedditModBot._passes_age
passes_age(payload, s, t_now) ==
    IF s.max_item_age_hours <= 0 THEN TRUE
    ELSE IF payload.created_utc <= 0 THEN TRUE
    ELSE (t_now - payload.created_utc) <= s.max_item_age_hours * Hour

\* whether reading runtime.settings.modlog_max_age_days gives a value:
\* ResolvedSettings declares no such field, so the read raises AttributeError
\* inside the try blocks of _refresh_modlog_cache, _poll_once and
\* _edit_alert_message
has_modlog_max_age_days(s) == "modlog_max_age_days" \in DOMAIN s

\* max_age_s handed to list_modlog_entries by _poll_once and _edit_alert_message
history_max_age_s(s) ==
    IF s.modlog_max_age_days > 0 THEN s.modlog_max_age_days * Day ELSE NoStamp

Max(S) == CHOOSE x \in S : \A y \in S : y <= x

\* seen_fullnames of a cycle: every fetched fullname, filtered out or not
seen_fullnames(l) == {l.reports[n].fullname : n \in 1..Len(l.reports)}

\* `continue` of the for loop over reports
NextReport(l) ==
    [l EXCEPT !.k = l.k + 1, !.payload = None, !.sent = NoId, !.edit = None,
              !.pc = IF l.k + 1 > Len(l.reports) THEN "drift" ELSE "item"]

\* a loop over refs that does not skip the refs of seen_fullnames
NextRef_unskipped(l) ==
    IF l.r + 1 > Len(l.refs)
    THEN [l EXCEPT !.r = Len(l.refs) + 1, !.edit = None, !.pc = "return"]
    ELSE [l EXCEPT !.r = l.r + 1, !.edit = None, !.pc = "refresh"]

\* `continue` of the for loop over refs: refs of seen_fullnames are skipped
NextRef(l) ==
    LET rest == {n \in (l.r + 1)..Len(l.refs) :
                    l.refs[n].fullname \notin seen_fullnames(l)}
    IN IF rest = {}
       THEN [l EXCEPT !.r = Len(l.refs) + 1, !.edit = None, !.pc = "return"]
       ELSE [l EXCEPT !.r = CHOOSE n \in rest : \A m \in rest : n <= m,
                      !.edit = None, !.pc = "refresh"]

\* return of _edit_alert_message to its caller
EditReturn(l) == IF l.edit.new_report # None THEN NextReport(l) ELSE NextRef(l)

Set(p, l) == loc' = [loc EXCEPT ![p] = l]

\* end of the `async with` block: asyncio.Lock.release
Release(p) == poll_lock' = [poll_lock EXCEPT ![TenantOf(p)].locked = FALSE]

\* what a finished call leaves behind: the value returned to its caller
Returned(l, value) == [NoLocal EXCEPT !.posted = value]

\* a watermark taken from the oldest entry of the batch
newest_of_oldest(entries) ==
    LET stamps == {entries[n].created_utc : n \in 1..Len(entries)} \ {0}
    IN IF stamps = {} THEN NoStamp
       ELSE CHOOSE x \in stamps : \A y \in stamps : x <= y

\* newest = max(entry[1] for entry in entries if entry[1]); an empty max()
\* raises ValueError, which the except of _refresh_modlog_cache swallows
newest_of(entries) ==
    LET stamps == {entries[n].created_utc : n \in 1..Len(entries)} \ {0}
    IN IF stamps = {} THEN NoStamp ELSE Max(stamps)

\* BotStore._require_conn does not raise
require_conn == conn = "open"

\* the next step of a caller of _poll_once is a call of a store method
StoreCall(p) ==
    LET l == loc[p]
        t == TenantOf(p)
        s == settings[t]
    IN \/ l.pc \in {"bind", "save", "update", "edit_load", "edit_clear",
                    "edit_delete", "edit_save", "drift", "mark", "modlog_save"}
       \/ l.pc = "modlog" /\ s.modlog_fetch_limit > 0
       \/ l.pc = "modlog_update" /\ newest_of(l.refs) # NoStamp
       \/ l.pc = "modlog_prune" /\ has_modlog_max_age_days(s)
                                /\ s.modlog_max_age_days > 0
       \/ /\ l.pc = "item"
          /\ passes_age(from_reported_item(l.reports[l.k], t), s, now)
          /\ passes_threshold(from_reported_item(l.reports[l.k], t), s)

\* an exception that ends the task that called _poll_once
Raised_ending_loop(p) == [NoLocal EXCEPT !.pc = "stopped", !.raised = TRUE]

\* an exception that leaves _poll_once: the lock is released; _poll_loop logs
\* it and sleeps, _modsync_command lets it pass to its caller
Raised(p) == [NoLocal EXCEPT !.raised = p \notin PollTasks]

\* a store method raises (sqlite3.Error, or the RuntimeError of _require_conn
\* after close).  should_alert, set_discord_message, save_view and
\* _update_existing_alert are not inside a try; _refresh_modlog_cache,
\* _refresh_unhandled_alerts and the clearing paths of _edit_alert_message
\* catch Exception
\* a store whose every failure ends the cycle
store_failure_fatal(p) ==
    /\ StoreCall(p)
    /\ Set(p, Raised(p))
    /\ Release(p)
    /\ hist' = [hist EXCEPT !.after_close = @ \/ ~require_conn, !.waited[p] = FALSE]
    /\ UNCHANGED <<store_vars, messages, views_mem, mod, settings, conn, env, now>>

\* a store method raised (sqlite3.Error, or RuntimeError after close): the
\* exception reaches the nearest enclosing except block
store_failure(p) ==
    LET l == loc[p]
        propagates == \/ l.pc \in {"item", "bind", "save", "update"}
                      \/ /\ l.pc \in {"edit_load", "edit_save"}
                         /\ l.edit.new_report # None
    IN
    /\ StoreCall(p)
    /\ IF propagates
       THEN /\ Set(p, Raised(p))
            /\ Release(p)
       ELSE /\ Set(p, CASE l.pc \in {"edit_load", "edit_save", "mark"} -> NextRef(l)
                        [] l.pc \in {"edit_clear", "edit_delete"} -> EditReturn(l)
                        [] l.pc = "drift" -> [l EXCEPT !.pc = "return"]
                        [] OTHER -> [l EXCEPT !.refs = <<>>, !.pc = "fetch"])
            /\ UNCHANGED poll_lock
    /\ hist' = [hist EXCEPT !.after_close = @ \/ ~require_conn,
                            !.waited[p] = IF propagates THEN FALSE ELSE @]
    /\ UNCHANGED <<store_vars, messages, views_mem, mod, settings, conn, env, now>>

\* a store method called after BotStore.close: RuntimeError("BotStore is not
\* connected")
not_connected(p) ==
    /\ ~require_conn
    /\ store_failure(p)

\* close(): runtime.poll_task.cancel() and `await runtime.poll_task` of one
\* tenant, in the order of self._runtimes.  The CancelledError is raised at
\* the await the task is suspended in and leaves _poll_once through
\* `async with runtime.poll_lock`
close_cancel(p) ==
    LET t == TenantOf(p) IN
    /\ require_conn
    /\ p \in PollTasks \cap env.procs
    /\ loc[p].pc # "cancelled"
    /\ \A q \in PollTasks \cap env.procs : GuildOf(TenantOf(q)) < GuildOf(t)
                                           => loc[q].pc = "cancelled"
    /\ Set(p, [NoLocal EXCEPT !.pc = "cancelled"])
    /\ poll_lock' =
          IF loc[p].pc = "waiting"
          THEN [poll_lock EXCEPT ![t].waiters = SelectSeq(@, LAMBDA q : q # p)]
          ELSE IF loc[p].pc = "idle" THEN poll_lock
          ELSE [poll_lock EXCEPT ![t].locked = FALSE]
    /\ hist' = [hist EXCEPT !.waited[p] = FALSE]
    /\ UNCHANGED <<store_vars, messages, views_mem, mod, settings, conn, env, now>>

\* close(): `await self.store.close()` after every poll task has finished
store_close ==
    /\ require_conn
    /\ \A p \in PollTasks \cap env.procs : loc[p].pc = "cancelled"
    /\ conn' = "closed"
    /\ UNCHANGED <<store_vars, messages, views_mem, poll_lock, loc, mod, settings,
                   env, now, hist>>

\* _poll_once without the lock: the caller enters the cycle body at once
poll_once_unlocked(p) ==
    /\ p \in env.procs
    /\ loc[p].pc = "idle"
    /\ Set(p, [NoLocal EXCEPT !.pc = "resolve"])
    /\ hist' = [hist EXCEPT !.ran[p] = "pending", !.waited[p] = FALSE,
                            !.newly_bound[p] = 0]
    /\ UNCHANGED <<store_vars, messages, views_mem, poll_lock, mod, settings, conn, env, now>>

\* _poll_once that gives up when a cycle is in progress: the caller returns 0
\* without a cycle of its own
poll_once_skipping(p) ==
    LET t == TenantOf(p) IN
    /\ p \in env.procs
    /\ loc[p].pc = "idle"
    /\ IF ~poll_lock[t].locked /\ poll_lock[t].waiters = <<>>
       THEN /\ poll_lock' = [poll_lock EXCEPT ![t].locked = TRUE]
            /\ Set(p, [NoLocal EXCEPT !.pc = "resolve"])
       ELSE /\ UNCHANGED poll_lock
            /\ Set(p, Returned(loc[p], 0))
    /\ hist' = [hist EXCEPT !.ran[p] = "pending", !.waited[p] = FALSE,
                            !.newly_bound[p] = 0]
    /\ UNCHANGED <<store_vars, messages, views_mem, mod, settings, conn, env, now>>

\* _poll_once entered: `async with runtime.poll_lock` (asyncio.Lock.acquire:
\* taken at once when free with no waiter, else the caller queues)
poll_once(p) ==
    LET t == TenantOf(p)
        free == ~poll_lock[t].locked /\ poll_lock[t].waiters = <<>>
    IN
    /\ p \in env.procs
    /\ loc[p].pc = "idle"
    /\ IF free
       THEN /\ poll_lock' = [poll_lock EXCEPT ![t].locked = TRUE]
            /\ Set(p, [NoLocal EXCEPT !.pc = "resolve"])
       ELSE /\ poll_lock' = [poll_lock EXCEPT ![t].waiters = Append(@, p)]
            /\ Set(p, [NoLocal EXCEPT !.pc = "waiting"])
    /\ hist' = [hist EXCEPT !.ran[p] = "pending", !.waited[p] = ~free,
                            !.newly_bound[p] = 0]
    /\ UNCHANGED <<store_vars, messages, views_mem, mod, settings, conn, env, now>>

\* asyncio.Lock: the first waiter is woken after a release and takes the lock
poll_lock_acquired(p) ==
    LET t == TenantOf(p) IN
    /\ loc[p].pc = "waiting"
    /\ ~poll_lock[t].locked
    /\ poll_lock[t].waiters # <<>> /\ Head(poll_lock[t].waiters) = p
    /\ poll_lock' = [poll_lock EXCEPT ![t].locked = TRUE, ![t].waiters = Tail(@)]
    /\ Set(p, [loc[p] EXCEPT !.pc = "resolve"])
    /\ UNCHANGED <<store_vars, messages, views_mem, mod, settings, conn, env, now, hist>>

\* _resolve_mod_channel found the channel
resolve_mod_channel(p) ==
    /\ loc[p].pc = "resolve"
    /\ Set(p, [loc[p] EXCEPT !.pc = "modlog"])
    /\ hist' = [hist EXCEPT !.ran[p] = "ran"]
    /\ UNCHANGED <<store_vars, messages, views_mem, poll_lock, mod, settings, conn, env, now>>

\* _resolve_mod_channel returned None: the cycle returns 0
resolve_mod_channel_none(p) ==
    /\ loc[p].pc = "resolve"
    /\ Set(p, Returned(loc[p], 0))
    /\ Release(p)
    /\ hist' = [hist EXCEPT !.ran[p] = "ran", !.waited[p] = FALSE]
    /\ UNCHANGED <<store_vars, messages, views_mem, mod, settings, conn, env, now>>

\* _refresh_modlog_cache: the guards, get_modlog_state and
\* fetch_recent_modlog_entries(limit, min_created_utc = last_seen)
refresh_modlog_cache(p) ==
    LET t == TenantOf(p)
        s == settings[t]
    IN
    /\ loc[p].pc = "modlog"
    /\ StoreCall(p) => require_conn
    /\ IF s.modlog_fetch_limit <= 0
       THEN Set(p, [loc[p] EXCEPT !.pc = "fetch"])
       ELSE \E log \in env.logs :
              LET last_seen == get_modlog_state(modlog_state, t)
                  entries == fetch_recent_modlog_entries(
                                 Take(log, s.modlog_fetch_limit), last_seen)
              IN Set(p, [loc[p] EXCEPT !.refs = entries,
                            !.pc = IF entries # <<>> THEN "modlog_save"
                                   ELSE "modlog_prune"])
    /\ UNCHANGED <<store_vars, messages, views_mem, poll_lock, mod, settings, conn, env,
                   now, hist>>

\* _refresh_modlog_cache: save_modlog_entries
modlog_save(p) ==
    LET t == TenantOf(p)
        entries == loc[p].refs
        stamps == {entries[n].created_utc : n \in 1..Len(entries)} \ {0}
    IN
    /\ loc[p].pc = "modlog_save"
    /\ StoreCall(p) => require_conn
    /\ modlog_entries' = save_modlog_entries(modlog_entries, t, entries)
    /\ Set(p, [loc[p] EXCEPT !.pc = "modlog_update"])
    /\ hist' = [hist EXCEPT
          !.merged[t] = Max({@} \cup stamps),
          !.remerged = @ \/ \E n \in 1..Len(entries), k \in 1..Len(modlog_entries) :
                               modlog_key(modlog_entries[k]) =
                                   <<t, entries[n].fullname, entries[n].created_utc,
                                     entries[n].line>>]
    /\ UNCHANGED <<reported_items, alert_views, modlog_state, messages, views_mem,
                   poll_lock, mod, settings, conn, env, now>>

\* _refresh_modlog_cache: update_modlog_state(newest)
modlog_update(p) ==
    LET t == TenantOf(p)
        newest == newest_of(loc[p].refs)
    IN
    /\ loc[p].pc = "modlog_update"
    /\ StoreCall(p) => require_conn
    /\ IF newest = NoStamp
       THEN /\ Set(p, [loc[p] EXCEPT !.refs = <<>>, !.pc = "fetch"])
            /\ UNCHANGED modlog_state
       ELSE /\ modlog_state' = update_modlog_state(modlog_state, t, newest)
            /\ Set(p, [loc[p] EXCEPT !.refs = <<>>, !.pc = "modlog_prune"])
    /\ UNCHANGED <<reported_items, alert_views, modlog_entries, messages, views_mem,
                   poll_lock, mod, settings, conn, env, now, hist>>

\* _refresh_modlog_cache: prune_modlog_entries when modlog_max_age_days > 0;
\* the AttributeError of the read ends the refresh in its except block
modlog_prune(p) ==
    LET t == TenantOf(p)
        s == settings[t]
    IN
    /\ loc[p].pc = "modlog_prune"
    /\ StoreCall(p) => require_conn
    /\ modlog_entries' =
          IF has_modlog_max_age_days(s) /\ s.modlog_max_age_days > 0
          THEN prune_modlog_entries(modlog_entries, t, s.modlog_max_age_days * Day, now)
          ELSE modlog_entries
    /\ Set(p, [loc[p] EXCEPT !.refs = <<>>, !.pc = "fetch"])
    /\ UNCHANGED <<reported_items, alert_views, modlog_state, messages, views_mem,
                   poll_lock, mod, settings, conn, env, now, hist>>

\* the lists fetch_reports may return in this scenario: any subset of the
\* items, in creation order, each with any of the field values
ReportOf(i, f) ==
    [fullname |-> i, kind |-> kind_of(i),
     link_url |-> IF kind_of(i) = "comment" THEN NoStr
                  ELSE sanitize_http_url(f.url),
     title |-> f.title,
     num_reports |-> f.num_reports, created_utc |-> f.created_utc,
     locked |-> f.locked]

FieldValues ==
    [url : env.urls, title : env.titles, num_reports : env.nreports,
     created_utc : env.createds, locked : env.lockeds]

ReportLists ==
    {[n \in 1..Len(o) |-> ReportOf(o[n], f[o[n]])] :
        o \in {SelectSeq(ItemOrder, LAMBDA i : i \in S) : S \in SUBSET env.items},
        f \in [env.items -> FieldValues]}

\* runtime.reddit.fetch_reports() returned
fetch_reports(p) ==
    /\ loc[p].pc = "fetch"
    /\ \E reports \in ReportLists :
         Set(p, [loc[p] EXCEPT !.reports = reports, !.k = 1, !.posted = 0,
                    !.pc = IF reports = <<>> THEN "drift" ELSE "item"])
    /\ UNCHANGED <<store_vars, messages, views_mem, poll_lock, mod, settings, conn, env,
                   now, hist>>

\* runtime.reddit.fetch_reports() raised: the cycle returns 0
fetch_reports_fail(p) ==
    /\ loc[p].pc = "fetch"
    /\ Set(p, Returned(loc[p], 0))
    /\ Release(p)
    /\ hist' = [hist EXCEPT !.waited[p] = FALSE]
    /\ UNCHANGED <<store_vars, messages, views_mem, mod, settings, conn, env, now>>

\* payload.action_log.extend(history) of a new alert
with_history(payload, history) ==
    [payload EXCEPT !.action_log = @ \o history]

\* one pass of `for report in reports` up to its first await that leaves the
\* item: the filters, store.should_alert and, for a new alert, the cached
\* moderation history (none when the try block raises)
poll_report(p) ==
    LET t == TenantOf(p)
        s == settings[t]
        l == loc[p]
        report == l.reports[l.k]
        payload == from_reported_item(report, t)
        row == reported_items[<<t, report.fullname>>]
    IN
    /\ l.pc = "item"
    /\ StoreCall(p) => require_conn
    /\ IF ~passes_age(payload, s, now) \/ ~passes_threshold(payload, s)
       THEN /\ Set(p, NextReport(l))
            /\ UNCHANGED reported_items
            /\ hist' = [hist EXCEPT
                  !.below_first[<<t, report.fullname>>] =
                      @ \/ (row = None
                            /\ report.num_reports < threshold_of(report.kind, s))]
       ELSE /\ reported_items' =
                  should_alert_rows(reported_items, report, t, GuildOf(t), now)
            /\ hist' = [hist EXCEPT
                  !.below_first[<<t, report.fullname>>] =
                      @ \/ (row = None
                            /\ report.num_reports < threshold_of(report.kind, s)),
                  !.alerted_twice[<<t, report.fullname>>] =
                      @ \/ (should_alert_result(row) /\ hist.alerted[<<t, report.fullname>>]),
                  !.alerted[<<t, report.fullname>>] = @ \/ should_alert_result(row)]
            /\ IF ~should_alert_result(row)
               THEN Set(p, [l EXCEPT !.pc = "update"])
               ELSE IF s.modlog_fetch_limit > 0 /\ has_modlog_max_age_days(s)
               THEN \E history \in list_modlog_entries(modlog_entries, t,
                          payload.fullname, history_max_age_s(s),
                          s.modlog_fetch_limit, now) :
                       Set(p, [l EXCEPT !.payload = with_history(payload, history),
                                        !.pc = "send"])
               ELSE Set(p, [l EXCEPT !.payload = payload, !.pc = "send"])
    /\ UNCHANGED <<alert_views, modlog_entries, modlog_state, messages, views_mem,
                   poll_lock, mod, settings, conn, env, now>>

\* the id Discord gives the next message
NextMsgId == CHOOSE m \in MsgIds :
                 messages[m].status = "unsent"
                 /\ \A n \in MsgIds : messages[n].status = "unsent" => m <= n

\* channel.send(embed, view) returned the sent message
channel_send(p) ==
    LET l == loc[p] IN
    /\ l.pc = "send"
    /\ \E m \in MsgIds : messages[m].status = "unsent"
    /\ messages' = [messages EXCEPT ![NextMsgId] =
                      [status |-> "live", setup_id |-> TenantOf(p),
                       fullname |-> l.payload.fullname]]
    /\ views_mem' = [views_mem EXCEPT ![NextMsgId] = l.payload]
    /\ Set(p, [l EXCEPT !.sent = NextMsgId, !.pc = "bind"])
    /\ UNCHANGED <<store_vars, poll_lock, mod, settings, conn, env, now, hist>>

\* a failed send that ends the cycle
channel_send_fail_returning(p) ==
    /\ loc[p].pc = "send"
    /\ Set(p, [loc[p] EXCEPT !.pc = "return"])
    /\ UNCHANGED <<store_vars, messages, views_mem, poll_lock, mod, settings, conn, env,
                   now, hist>>

\* channel.send raised discord.Forbidden or discord.HTTPException: `continue`
channel_send_fail(p) ==
    /\ loc[p].pc = "send"
    /\ Set(p, NextReport(loc[p]))
    /\ UNCHANGED <<store_vars, messages, views_mem, poll_lock, mod, settings, conn, env,
                   now, hist>>

\* a binding to the first message id of the channel
poll_set_discord_message_first_id(p) ==
    LET l == loc[p]
        key == <<TenantOf(p), l.payload.fullname>>
    IN
    /\ l.pc = "bind"
    /\ StoreCall(p) => require_conn
    /\ reported_items' = set_discord_message(reported_items, l.payload.fullname,
                                             TenantOf(p), ModChannel, 1)
    /\ Set(p, [l EXCEPT !.pc = "save"])
    /\ hist' = [hist EXCEPT !.held[key] = FALSE, !.bound[key] = TRUE,
                            !.newly_bound[p] = @ + 1]
    /\ UNCHANGED <<alert_views, modlog_entries, modlog_state, messages, views_mem,
                   poll_lock, mod, settings, conn, env, now>>

\* store.set_discord_message(payload.fullname, setup_id, sent.channel.id, sent.id)
poll_set_discord_message(p) ==
    LET l == loc[p]
        key == <<TenantOf(p), l.payload.fullname>>
    IN
    /\ l.pc = "bind"
    /\ StoreCall(p) => require_conn
    /\ reported_items' = set_discord_message(reported_items, l.payload.fullname,
                                             TenantOf(p), ModChannel, l.sent)
    /\ Set(p, [l EXCEPT !.pc = "save"])
    /\ hist' = [hist EXCEPT !.held[key] = FALSE, !.bound[key] = TRUE,
                            !.newly_bound[p] = @ + 1]
    /\ UNCHANGED <<alert_views, modlog_entries, modlog_state, messages, views_mem,
                   poll_lock, mod, settings, conn, env, now>>

\* a save_view without `posted += 1`
poll_save_view_uncounted(p) ==
    LET l == loc[p] IN
    /\ l.pc = "save"
    /\ StoreCall(p) => require_conn
    /\ alert_views' = save_view(alert_views, l.sent, ModChannel,
                                GuildOf(TenantOf(p)), to_dict(views_mem[l.sent]), now)
    /\ Set(p, NextReport(l))
    /\ hist' = [hist EXCEPT !.saved[l.sent] = views_mem[l.sent]]
    /\ UNCHANGED <<reported_items, modlog_entries, modlog_state, messages, views_mem,
                   poll_lock, mod, settings, conn, env, now>>

\* store.save_view(ViewRecord(sent.id, ..., payload.to_dict())); posted += 1
poll_save_view(p) ==
    LET l == loc[p] IN
    /\ l.pc = "save"
    /\ StoreCall(p) => require_conn
    /\ alert_views' = save_view(alert_views, l.sent, ModChannel,
                                GuildOf(TenantOf(p)), to_dict(views_mem[l.sent]), now)
    /\ Set(p, [NextReport(l) EXCEPT !.posted = l.posted + 1])
    /\ hist' = [hist EXCEPT !.saved[l.sent] = views_mem[l.sent]]
    /\ UNCHANGED <<reported_items, modlog_entries, modlog_state, messages, views_mem,
                   poll_lock, mod, settings, conn, env, now>>

\* _update_existing_alert: get_alert_message, then _edit_alert_message is called
\* with new_report unless the record is handled or unbound
update_existing_alert(p) ==
    LET l == loc[p]
        report == l.reports[l.k]
        got == get_alert_message(reported_items, report.fullname, TenantOf(p))
    IN
    /\ l.pc = "update"
    /\ StoreCall(p) => require_conn
    /\ IF got.handled \/ got.channel_id = NoId \/ got.message_id = NoId
       THEN Set(p, NextReport(l))
       ELSE Set(p, [l EXCEPT !.pc = "edit_load",
                             !.edit = [fullname |-> report.fullname,
                                       channel_id |-> got.channel_id,
                                       message_id |-> got.message_id,
                                       new_report |-> report,
                                       refreshed_state |-> None,
                                       before |-> None, payload |-> None,
                                       attached |-> FALSE, err |-> NoStr]])
    /\ UNCHANGED <<store_vars, messages, views_mem, poll_lock, mod, settings, conn, env,
                   now, hist>>

\* _edit_alert_message: the diff against new_report (the modelled diffed
\* fields: title, link_url, num_reports, locked) and the value it leaves in
\* `changed`
diff_report(payload, new_report) ==
    IF new_report = None THEN payload
    ELSE [payload EXCEPT !.title = new_report.title,
                         !.link_url = new_report.link_url,
                         !.num_reports = new_report.num_reports,
                         !.locked = new_report.locked]

\* a diff that compares the title only
changed_report_title_only(payload, new_report) ==
    /\ new_report # None
    /\ payload.title # new_report.title

\* _edit_alert_message: whether the diff against new_report sets `changed`
changed_report(payload, new_report) ==
    /\ new_report # None
    /\ \/ payload.title # new_report.title
       \/ payload.link_url # new_report.link_url
       \/ payload.num_reports # new_report.num_reports
       \/ payload.locked # new_report.locked

\* a merge that also takes the title of the refreshed state
diff_state_all_keys(payload, refreshed_state) ==
    IF refreshed_state = None THEN payload
    ELSE [payload EXCEPT
            !.locked = refreshed_state.locked,
            !.title = refreshed_state.title,
            !.num_reports = IF refreshed_state.num_reports < 0 THEN 0
                            ELSE refreshed_state.num_reports]

\* _edit_alert_message: the merge of refreshed_state (whitelisted keys only)
diff_state(payload, refreshed_state) ==
    IF refreshed_state = None THEN payload
    ELSE [payload EXCEPT
            !.locked = refreshed_state.locked,
            !.num_reports = IF @ # refreshed_state.num_reports
                            THEN (IF refreshed_state.num_reports < 0 THEN 0
                                  ELSE refreshed_state.num_reports)
                            ELSE @]

\* a diff that takes every refreshed state for a change
changed_state_always(payload, refreshed_state) == refreshed_state # None

\* _edit_alert_message: whether the merge of refreshed_state sets `changed`
changed_state(payload, refreshed_state) ==
    /\ refreshed_state # None
    /\ \/ payload.locked # refreshed_state.locked
       \/ payload.num_reports # refreshed_state.num_reports

\* _edit_alert_message: history lines not yet in action_log are appended
RECURSIVE append_new(_, _)
append_new(action_log, history) ==
    IF history = <<>> THEN action_log
    ELSE append_new(IF Head(history) \in Range(action_log) THEN action_log
                    ELSE Append(action_log, Head(history)),
                    Tail(history))

\* _edit_alert_message up to `if not changed: return`: get_view, the payload,
\* the two diffs and the moderation history (none when the try block raises)
edit_alert_message(p) ==
    LET t == TenantOf(p)
        s == settings[t]
        l == loc[p]
        e == l.edit
        view_record == alert_views[e.message_id]
        loaded == IF view_record = None
                  THEN (IF e.new_report # None
                        THEN from_reported_item(e.new_report, t) ELSE None)
                  ELSE from_dict(view_record.payload)
    IN
    /\ l.pc = "edit_load"
    /\ StoreCall(p) => require_conn
    /\ view_record # None =>
          ~(json_loads_raises(view_record.payload) \/ from_dict_raises(view_record.payload))
    /\ IF loaded = None
       THEN Set(p, EditReturn(l)) /\ UNCHANGED hist
       ELSE \E history \in (IF s.modlog_fetch_limit > 0 /\ has_modlog_max_age_days(s)
                            THEN list_modlog_entries(modlog_entries, t, loaded.fullname,
                                     history_max_age_s(s), s.modlog_fetch_limit, now)
                            ELSE {<<>>}) :
              LET owned == IF loaded.setup_id = "" THEN [loaded EXCEPT !.setup_id = t]
                           ELSE loaded
                  diffed == diff_state(diff_report(owned, e.new_report),
                                       e.refreshed_state)
                  payload == [diffed EXCEPT !.action_log = append_new(@, history)]
                  changed == \/ changed_report(owned, e.new_report)
                             \/ changed_state(diff_report(owned, e.new_report),
                                              e.refreshed_state)
                             \/ \E n \in 1..Len(history) :
                                    history[n] \notin Range(owned.action_log)
              IN IF ~changed
                 THEN /\ Set(p, EditReturn(l))
                      /\ hist' = [hist EXCEPT !.unchanged = TRUE]
                 ELSE /\ Set(p, [l EXCEPT !.pc = "edit_chan", !.edit.before = owned,
                                          !.edit.payload = payload])
                      /\ UNCHANGED hist
    /\ UNCHANGED <<store_vars, messages, views_mem, poll_lock, mod, settings, conn, env, now>>

\* guild.get_channel / guild.fetch_channel gave the text channel
edit_get_channel(p) ==
    /\ loc[p].pc = "edit_chan"
    /\ Set(p, [loc[p] EXCEPT !.pc = "edit_fetch"])
    /\ UNCHANGED <<store_vars, messages, views_mem, poll_lock, mod, settings, conn, env,
                   now, hist>>

\* the channel is not in the cache and guild.fetch_channel raised NotFound or
\* another HTTPException (Forbidden is one) (fetched = None): the binding is
\* cleared
edit_get_channel_none(p) ==
    /\ loc[p].pc = "edit_chan"
    /\ \E err \in {"NotFound", "HTTPException"} :
          Set(p, [loc[p] EXCEPT !.pc = "edit_clear", !.edit.err = err])
    /\ UNCHANGED <<store_vars, messages, views_mem, poll_lock, mod, settings, conn, env,
                   now, hist>>

\* channel.fetch_message(message_id): the message, or discord.NotFound
edit_fetch_message(p) ==
    LET l == loc[p] IN
    /\ l.pc = "edit_fetch"
    /\ Set(p, IF messages[l.edit.message_id].status = "live"
               THEN [l EXCEPT !.pc = "edit_edit"]
               ELSE [l EXCEPT !.pc = "edit_clear", !.edit.err = "NotFound"])
    /\ UNCHANGED <<store_vars, messages, views_mem, poll_lock, mod, settings, conn, env,
                   now, hist>>

\* channel.fetch_message raised discord.Forbidden or discord.HTTPException
edit_fetch_message_fail(p) ==
    /\ loc[p].pc = "edit_fetch"
    /\ Set(p, EditReturn(loc[p]))
    /\ UNCHANGED <<store_vars, messages, views_mem, poll_lock, mod, settings, conn, env,
                   now, hist>>

\* message.edit(embed, view): done, or discord.NotFound
edit_message(p) ==
    LET l == loc[p]
        m == l.edit.message_id
        key == <<TenantOf(p), l.edit.fullname>>
    IN
    /\ l.pc = "edit_edit"
    /\ IF messages[m].status = "live"
       THEN /\ views_mem' = [views_mem EXCEPT ![m] = l.edit.payload]
            /\ mod' = [mod EXCEPT ![m].attached = FALSE]
            /\ Set(p, [l EXCEPT !.pc = "edit_save", !.edit.attached = TRUE])
            /\ hist' = [hist EXCEPT !.edited_held = @ \/ hist.held[key]]
       ELSE /\ Set(p, [l EXCEPT !.pc = "edit_clear", !.edit.err = "NotFound"])
            /\ UNCHANGED <<views_mem, mod, hist>>
    /\ UNCHANGED <<store_vars, messages, poll_lock, settings, conn, env, now>>

\* a failed edit that is handled like discord.NotFound
edit_message_fail_clearing(p) ==
    /\ loc[p].pc = "edit_edit"
    /\ Set(p, [loc[p] EXCEPT !.pc = "edit_clear", !.edit.err = "NotFound"])
    /\ UNCHANGED <<store_vars, messages, views_mem, poll_lock, mod, settings, conn, env,
                   now, hist>>

\* message.edit raised discord.Forbidden or discord.HTTPException
edit_message_fail(p) ==
    /\ loc[p].pc = "edit_edit"
    /\ Set(p, EditReturn(loc[p]))
    /\ UNCHANGED <<store_vars, messages, views_mem, poll_lock, mod, settings, conn, env,
                   now, hist>>

\* store.clear_discord_message(fullname, setup_id) of the three clearing paths
edit_clear_discord_message(p) ==
    LET l == loc[p]
        key == <<TenantOf(p), l.edit.fullname>>
    IN
    /\ l.pc = "edit_clear"
    /\ StoreCall(p) => require_conn
    /\ reported_items' = clear_discord_message(reported_items, l.edit.fullname,
                                               TenantOf(p))
    /\ Set(p, [l EXCEPT !.pc = "edit_delete"])
    /\ hist' = [hist EXCEPT !.alerted[key] = FALSE, !.bound[key] = FALSE]
    /\ UNCHANGED <<alert_views, modlog_entries, modlog_state, messages, views_mem,
                   poll_lock, mod, settings, conn, env, now>>

\* store.delete_view(message_id) after clear_discord_message
edit_delete_view(p) ==
    LET l == loc[p] IN
    /\ l.pc = "edit_delete"
    /\ StoreCall(p) => require_conn
    /\ alert_views' = delete_view(alert_views, l.edit.message_id)
    /\ Set(p, EditReturn(l))
    /\ UNCHANGED <<reported_items, modlog_entries, modlog_state, messages, views_mem,
                   poll_lock, mod, settings, conn, env, now, hist>>

\* store.save_view(ViewRecord(message_id, ..., payload.to_dict())) after the edit
edit_save_view(p) ==
    LET l == loc[p] IN
    /\ l.pc = "edit_save"
    /\ StoreCall(p) => require_conn
    /\ alert_views' = save_view(alert_views, l.edit.message_id, l.edit.channel_id,
                                GuildOf(TenantOf(p)), to_dict(l.edit.payload), now)
    /\ Set(p, EditReturn(l))
    /\ hist' = [hist EXCEPT !.saved[l.edit.message_id] = l.edit.payload]
    /\ UNCHANGED <<reported_items, modlog_entries, modlog_state, messages, views_mem,
                   poll_lock, mod, settings, conn, env, now>>

\* _refresh_unhandled_alerts: list_unhandled_alerts(setup_id, limit=50); the
\* limit is env.drift_limit, which is DriftLimit (50) in every scenario but
\* the one of SpecDrift, where the limit and the number of alerts are scaled
\* down together
refresh_unhandled_alerts(p) ==
    LET l == loc[p] IN
    /\ l.pc = "drift"
    /\ StoreCall(p) => require_conn
    /\ \E refs \in list_unhandled_alerts(reported_items, alert_views, TenantOf(p),
                                         env.drift_limit) :
         Set(p, NextRef([l EXCEPT !.refs = refs, !.r = 0]))
    /\ UNCHANGED <<store_vars, messages, views_mem, poll_lock, mod, settings, conn, env,
                   now, hist>>

\* runtime.reddit.refresh_state(fullname) returned a state: _edit_alert_message
\* is called with refreshed_state
refresh_state(p) ==
    LET l == loc[p]
        ref == l.refs[l.r]
    IN
    /\ l.pc = "refresh"
    /\ valid_fullname(ref.fullname)
    /\ \E state \in [locked : env.lockeds, num_reports : env.nreports,
                      title : env.titles] :
         Set(p, [l EXCEPT !.pc = "edit_load",
                          !.edit = [fullname |-> ref.fullname,
                                    channel_id |-> ref.channel_id,
                                    message_id |-> ref.message_id,
                                    new_report |-> None,
                                    refreshed_state |-> state,
                                    before |-> None, payload |-> None,
                                    attached |-> FALSE, err |-> NoStr]])
    /\ UNCHANGED <<store_vars, messages, views_mem, poll_lock, mod, settings, conn, env,
                   now, hist>>

\* runtime.reddit.refresh_state raised an exception other than ValueError
refresh_state_fail(p) ==
    /\ loc[p].pc = "refresh"
    /\ valid_fullname(loc[p].refs[loc[p].r].fullname)
    /\ Set(p, NextRef(loc[p]))
    /\ UNCHANGED <<store_vars, messages, views_mem, poll_lock, mod, settings, conn, env,
                   now, hist>>

\* runtime.reddit.refresh_state raised ValueError (_thing_from_fullname)
refresh_state_invalid(p) ==
    /\ loc[p].pc = "refresh"
    /\ ~valid_fullname(loc[p].refs[loc[p].r].fullname)
    /\ Set(p, [loc[p] EXCEPT !.pc = "mark"])
    /\ UNCHANGED <<store_vars, messages, views_mem, poll_lock, mod, settings, conn, env,
                   now, hist>>

\* a ValueError branch that unbinds the row instead of marking it handled
refresh_mark_handled_unbinding(p) ==
    LET l == loc[p] IN
    /\ l.pc = "mark"
    /\ StoreCall(p) => require_conn
    /\ reported_items' = clear_discord_message(reported_items, l.refs[l.r].fullname,
                                                TenantOf(p))
    /\ Set(p, NextRef(l))
    /\ UNCHANGED <<alert_views, modlog_entries, modlog_state, messages, views_mem,
                   poll_lock, mod, settings, conn, env, now, hist>>

\* the ValueError branch: store.mark_handled(fullname, runtime.setup_id), then
\* `continue`
refresh_mark_handled(p) ==
    LET l == loc[p] IN
    /\ l.pc = "mark"
    /\ StoreCall(p) => require_conn
    /\ reported_items' = mark_handled(reported_items, l.refs[l.r].fullname, TenantOf(p))
    /\ Set(p, NextRef(l))
    /\ UNCHANGED <<alert_views, modlog_entries, modlog_state, messages, views_mem,
                   poll_lock, mod, settings, conn, env, now, hist>>

\* `return posted` at the end of _poll_once
poll_return(p) ==
    /\ loc[p].pc = "return"
    /\ Set(p, Returned(loc[p], loc[p].posted))
    /\ Release(p)
    /\ hist' = [hist EXCEPT !.waited[p] = FALSE]
    /\ UNCHANGED <<store_vars, messages, views_mem, mod, settings, conn, env, now>>

\* ------------------------------------------------- discord_ui/report_view.py
NoCallback == [pc |-> "idle", payload |-> None, attached |-> FALSE]

\* ReportView.handled_button up to its first await: payload.handled = True and
\* _append_action on the payload of the view attached to the message
handled_button(m) ==
    LET payload == [views_mem[m] EXCEPT !.handled = TRUE,
                        !.action_log = Append(@, "marked handled")]
    IN
    /\ env.clicks > 0
    /\ mod[m].pc = "idle"
    /\ messages[m].status = "live"
    /\ views_mem[m] # None
    /\ ~views_mem[m].handled
    /\ env' = [env EXCEPT !.clicks = @ - 1]
    /\ views_mem' = [views_mem EXCEPT ![m] = payload]
    /\ mod' = [mod EXCEPT ![m] = [pc |-> "edit", payload |-> payload,
                                  attached |-> TRUE]]
    /\ loc' = [p \in Procs |->
                 IF loc[p].edit # None /\ loc[p].edit.message_id = m
                       /\ loc[p].edit.attached
                 THEN [loc[p] EXCEPT !.edit.payload = payload]
                 ELSE loc[p]]
    /\ UNCHANGED <<store_vars, messages, poll_lock, settings, conn, now, hist>>

\* ReportView._apply_message_update: _fetch_message_for_ref and
\* msg.edit(embed, view=self); a missing message is skipped
apply_message_update(m) ==
    /\ mod[m].pc = "edit"
    /\ IF messages[m].status = "live"
       THEN /\ views_mem' = [views_mem EXCEPT ![m] = mod[m].payload]
            /\ loc' = [p \in Procs |->
                         IF loc[p].edit # None /\ loc[p].edit.message_id = m
                               /\ ~mod[m].attached
                         THEN [loc[p] EXCEPT !.edit.attached = FALSE]
                         ELSE loc[p]]
            /\ mod' = [mod EXCEPT ![m].pc = "persist", ![m].attached = TRUE]
       ELSE /\ mod' = [mod EXCEPT ![m].pc = "persist"]
            /\ UNCHANGED <<views_mem, loc>>
    /\ UNCHANGED <<store_vars, messages, poll_lock, settings, conn, env, now, hist>>

\* ReportView._persist: save_view(ViewRecord(ref.message_id, ..., to_dict()))
persist(m) ==
    /\ mod[m].pc = "persist"
    /\ alert_views' = save_view(alert_views, m, ModChannel,
                                GuildOf(messages[m].setup_id),
                                to_dict(mod[m].payload), now)
    /\ mod' = [mod EXCEPT ![m].pc = "mark"]
    /\ hist' = [hist EXCEPT !.saved[m] = mod[m].payload]
    /\ UNCHANGED <<reported_items, modlog_entries, modlog_state, messages, views_mem,
                   poll_lock, loc, settings, conn, env, now>>

\* ReportView._apply_message_update: store.mark_handled when payload.handled
apply_mark_handled(m) ==
    LET payload == mod[m].payload
        setup_id == IF payload.setup_id # "" THEN payload.setup_id
                    ELSE messages[m].setup_id
    IN
    /\ mod[m].pc = "mark"
    /\ reported_items' = mark_handled(reported_items, payload.fullname, setup_id)
    /\ mod' = [mod EXCEPT ![m] = NoCallback]
    /\ hist' = [hist EXCEPT !.held[<<setup_id, payload.fullname>>] = TRUE]
    /\ UNCHANGED <<alert_views, modlog_entries, modlog_state, messages, views_mem,
                   poll_lock, loc, settings, conn, env, now>>

\* ------------------------------------------------------------- environment
\* an hour passes on time.time()
tick ==
    /\ env.ticks > 0
    /\ env' = [env EXCEPT !.ticks = @ - 1]
    /\ now' = now + Hour
    /\ UNCHANGED <<store_vars, messages, views_mem, poll_lock, loc, mod, settings, conn,
                   hist>>

\* somebody deletes an alert message in the channel
delete_message(m) ==
    /\ messages[m].status = "live"
    /\ messages' = [messages EXCEPT ![m].status = "deleted"]
    /\ UNCHANGED <<store_vars, views_mem, poll_lock, loc, mod, settings, conn, env, now,
                   hist>>

\* Settings.view_store_ttl_hours (VIEW_STORE_TTL_HOURS, default 168)
view_store_ttl_hours == 168

\* str(record.guild_id)
GuildStr(guild_id) == IF guild_id = 1 THEN "1" ELSE "2"

\* _restore_views: the record is deleted (from_dict raised, or the payload has
\* no fullname)
invalid_view(record) ==
    \/ from_dict_raises(record.payload)
    \/ from_dict(record.payload).fullname = ""

\* a recovery that also deletes the records no runtime owns
restore_deleted_unowned(views) ==
    [m \in MsgIds |->
        IF views[m] = None \/ invalid_view(views[m]) THEN None
        ELSE LET payload == from_dict(views[m].payload)
                 setup_id == IF payload.setup_id # "" THEN payload.setup_id
                             ELSE GuildStr(views[m].guild_id)
             IN IF setup_id \in Tenants THEN views[m] ELSE None]

\* _restore_views: the table after the delete_view calls of the loop
restore_deleted(views) ==
    [m \in MsgIds |-> IF views[m] # None /\ invalid_view(views[m]) THEN None
                      ELSE views[m]]

\* _restore_views: the views registered by add_view, by message id (none for a
\* deleted record or a record whose setup has no runtime)
restore_views(views) ==
    [m \in MsgIds |->
        IF views[m] = None \/ invalid_view(views[m]) THEN None
        ELSE LET payload == from_dict(views[m].payload)
                 setup_id == IF payload.setup_id # "" THEN payload.setup_id
                             ELSE GuildStr(views[m].guild_id)
             IN IF setup_id \in Tenants THEN payload ELSE None]

\* on_ready on the stored views at time t_now: prune_views and load_views of
\* _restore_views, its loop over the records, and the poll tasks.  When
\* load_views raises, on_ready ends there: no record is deleted, no view is
\* registered and no poll task is created (the /modsync command is registered
\* before _restore_views)
ready_views(views, t_now) ==
    LET kept == prune_views(views, view_store_ttl_hours * Hour, t_now) IN
    IF load_views_raises(kept) THEN kept ELSE restore_deleted(kept)

ready_views_mem(views, t_now) ==
    LET kept == prune_views(views, view_store_ttl_hours * Hour, t_now) IN
    IF load_views_raises(kept) THEN [m \in MsgIds |-> None]
    ELSE restore_views(kept)

ready_loc(views, t_now) ==
    LET kept == prune_views(views, view_store_ttl_hours * Hour, t_now) IN
    [p \in Procs |->
        IF p \in PollTasks /\ load_views_raises(kept)
        THEN [NoLocal EXCEPT !.pc = "unstarted"]
        ELSE NoLocal]

\* the startup work of a process whose on_ready went through its body once:
\* calls of store.connect, calls of _restore_views, and poll tasks created for
\* a runtime (none when _restore_views raised before the tasks were created)
Started(tasks) == [connects |-> 1, restores |-> 1, poll_tasks |-> tasks]

\* no on_ready yet in this process
NotStarted == [connects |-> 0, restores |-> 0, poll_tasks |-> 0]

\* poll tasks on_ready creates for a runtime: one, or none when load_views
\* raised inside _restore_views
tasks_created(views, t_now) ==
    IF load_views_raises(prune_views(views, view_store_ttl_hours * Hour, t_now))
    THEN 0 ELSE 1

\* self._startup_done: on_ready has gone past its flag in this process
startup_done == \A p \in Procs : loc[p].pc # "stopped"

\* the process stops wherever its tasks are and is started again on the same
\* database: on_ready restores the views and creates the poll tasks
crash_restart ==
    /\ env.crashes > 0
    /\ env' = [env EXCEPT !.crashes = @ - 1]
    /\ alert_views' = ready_views(alert_views, now)
    /\ views_mem' = ready_views_mem(alert_views, now)
    /\ poll_lock' = [t \in Tenants |-> [locked |-> FALSE, waiters |-> <<>>]]
    /\ loc' = ready_loc(alert_views, now)
    /\ mod' = [m \in MsgIds |-> NoCallback]
    /\ hist' = [hist EXCEPT !.ran = [p \in Procs |-> "never"],
                            !.waited = [p \in Procs |-> FALSE],
                            !.startup = Started(tasks_created(alert_views, now))]
    /\ UNCHANGED <<reported_items, modlog_entries, modlog_state, messages,
                   settings, conn, now>>

\* the process stops wherever its tasks are
stop ==
    /\ env.crashes > 0
    /\ \A p \in Procs : loc[p].pc # "stopped"
    /\ env' = [env EXCEPT !.crashes = @ - 1]
    /\ views_mem' = [m \in MsgIds |-> None]
    /\ poll_lock' = [t \in Tenants |-> [locked |-> FALSE, waiters |-> <<>>]]
    /\ loc' = [p \in Procs |-> [NoLocal EXCEPT !.pc = "stopped"]]
    /\ mod' = [m \in MsgIds |-> NoCallback]
    /\ hist' = [hist EXCEPT !.ran = [p \in Procs |-> "never"],
                            !.waited = [p \in Procs |-> FALSE],
                            !.startup = NotStarted]
    /\ UNCHANGED <<store_vars, messages, settings, conn, now>>

\* the forms a stored payload takes when the database is damaged or edited by
\* hand while the process is down
Corrupted(payload) ==
    {InvalidJson, JsonList, [payload EXCEPT !.fullname = ""]}

\* a stored view is damaged while the process is down
corrupt_view(m) ==
    /\ env.corruptions > 0
    /\ \A p \in Procs : loc[p].pc = "stopped"
    /\ alert_views[m] # None
    /\ \E bad \in Corrupted(alert_views[m].payload) :
          alert_views' = [alert_views EXCEPT ![m].payload = bad]
    /\ env' = [env EXCEPT !.corruptions = @ - 1]
    /\ hist' = [hist EXCEPT !.saved[m] = None]
    /\ UNCHANGED <<reported_items, modlog_entries, modlog_state, messages,
                   views_mem, poll_lock, loc, mod, settings, conn, now>>

\* the setup of a stored view is taken out of the configuration while the
\* process is down: _ensure_runtimes builds no runtime for the setup_id of the
\* view's payload ("gone" is the id of no configured setup)
remove_setup(m) ==
    /\ env.corruptions > 0
    /\ \A p \in Procs : loc[p].pc = "stopped"
    /\ alert_views[m] # None
    /\ alert_views[m].payload \notin {InvalidJson, JsonList}
    /\ Get(alert_views[m].payload, "setup_id", "") \in Tenants
    /\ alert_views' = [alert_views EXCEPT ![m].payload.setup_id = "gone"]
    /\ env' = [env EXCEPT !.corruptions = @ - 1]
    /\ hist' = [hist EXCEPT !.saved[m] = None]
    /\ UNCHANGED <<reported_items, modlog_entries, modlog_state, messages,
                   views_mem, poll_lock, loc, mod, settings, conn, now>>

\* the stopped process is started again on the same database after some
\* downtime: on_ready
on_ready ==
    /\ \A p \in Procs : loc[p].pc = "stopped"
    /\ \E downtime \in env.downtimes :
          /\ now' = now + downtime
          /\ alert_views' = ready_views(alert_views, now + downtime)
          /\ views_mem' = ready_views_mem(alert_views, now + downtime)
          /\ loc' = ready_loc(alert_views, now + downtime)
          /\ hist' = [hist EXCEPT
                !.readied = TRUE,
                !.startup = [connects |-> @.connects + 1,
                             restores |-> @.restores + 1,
                             poll_tasks |-> @.poll_tasks
                                 + tasks_created(alert_views, now + downtime)]]
    /\ UNCHANGED <<reported_items, modlog_entries, modlog_state, messages,
                   poll_lock, mod, settings, conn, env>>

\* on_ready with the body run again: what a reconnect would do without the
\* _startup_done flag
on_ready_rerun ==
    /\ startup_done
    /\ hist.startup.connects < 3
    /\ alert_views' = ready_views(alert_views, now)
    /\ views_mem' = ready_views_mem(alert_views, now)
    /\ hist' = [hist EXCEPT
          !.reconnected = TRUE,
          !.startup = [connects |-> @.connects + 1,
                       restores |-> @.restores + 1,
                       poll_tasks |-> @.poll_tasks + tasks_created(alert_views, now)]]
    /\ UNCHANGED <<reported_items, modlog_entries, modlog_state, messages,
                   poll_lock, loc, mod, settings, conn, env, now>>

\* on_ready fires again after a gateway reconnect: `if self._startup_done:
\* return` (the flag is set before the first await of the first on_ready, so a
\* second on_ready during the startup work returns as well)
on_ready_reconnect ==
    /\ startup_done
    /\ hist' = [hist EXCEPT !.reconnected = TRUE]
    /\ UNCHANGED <<reported_items, alert_views, modlog_entries, modlog_state,
                   messages, views_mem, poll_lock, loc, mod, settings, conn, env,
                   now>>

\* ------------------------------------------------------------ specifications
\* the fields of ResolvedSettings the cycle reads
DefaultSettings ==
    [post_report_threshold |-> 2, comment_report_threshold |-> 2,
     max_item_age_hours |-> 0, modlog_fetch_limit |-> 0]

NoMessage == [status |-> "unsent", setup_id |-> "", fullname |-> ""]

\* nothing has happened yet.  ran: whether the last call of _poll_once by a
\* task has entered the cycle body; merged: largest timestamp given to
\* save_modlog_entries; alerted / bound: should_alert returned true /
\* set_discord_message was called since the last clear_discord_message;
\* alerted_twice: should_alert returned true while alerted; held:
\* mark_handled was applied and no set_discord_message since; edited_held:
\* message.edit of a cycle was done while held; unchanged:
\* _edit_alert_message returned at `if not changed`; waited: the running call
\* of _poll_once by a task found the lock taken; remerged:
\* save_modlog_entries was given an entry that was already stored;
\* after_close: a cycle called a store method after BotStore.close;
\* newly_bound: number of set_discord_message calls of a caller's cycle;
\* limit: the limit a caller gave to its direct call of list_unhandled_alerts;
\* readied:
\* on_ready has run on a database left by a stopped process; startup: what
\* the on_ready calls of the running process have done so far; reconnected:
\* on_ready has fired again in a process that had started; below_first: the
\* item was polled with fewer reports than its threshold while it had no
\* record; saved: the
\* payload object last handed to save_view for a message (none once the stored
\* row was damaged)
NoHistory ==
    [ran |-> [p \in Procs |-> "never"],
     merged |-> [t \in Tenants |-> NoStamp],
     alerted |-> [k \in Tenants \X Items |-> FALSE],
     alerted_twice |-> [k \in Tenants \X Items |-> FALSE],
     bound |-> [k \in Tenants \X Items |-> FALSE],
     held |-> [k \in Tenants \X Items |-> FALSE],
     edited_held |-> FALSE,
     unchanged |-> FALSE,
     waited |-> [p \in Procs |-> FALSE],
     remerged |-> FALSE,
     limit |-> [p \in Procs |-> 0],
     after_close |-> FALSE,
     newly_bound |-> [p \in Procs |-> 0],
     readied |-> FALSE,
     startup |-> Started(1),
     reconnected |-> FALSE,
     below_first |-> [k \in Tenants \X Items |-> FALSE],
     saved |-> [m \in MsgIds |-> None]]

\* an empty database (BotStore._ensure_schema) and an empty channel
InitStore ==
    /\ conn = "open"
    /\ reported_items = [k \in Tenants \X Items |-> None]
    /\ alert_views = [m \in MsgIds |-> None]
    /\ modlog_entries = <<>>
    /\ modlog_state = [t \in Tenants |-> NoStamp]
    /\ messages = [m \in MsgIds |-> NoMessage]
    /\ views_mem = [m \in MsgIds |-> None]
    /\ mod = [m \in MsgIds |-> NoCallback]

\* the state after on_ready: no cycle running
InitIdle ==
    /\ InitStore
    /\ poll_lock = [t \in Tenants |-> [locked |-> FALSE, waiters |-> <<>>]]
    /\ loc = [p \in Procs |-> NoLocal]
    /\ hist = NoHistory
    /\ now = 2 * Day

\* tenant A with its scheduled loop and a /modsync caller, one reported
\* submission whose lock state may change, the moderation-log cache off, no
\* moderator and no restart
Scenario ==
    [procs |-> {"loopA", "syncA"}, items |-> {"t3_a"}, urls |-> {"http://x"},
     titles |-> {"x"},
     nreports |-> {2}, createds |-> {Day}, lockeds |-> {FALSE, TRUE},
     logs |-> {<<>>}, clicks |-> 0, crashes |-> 0, corruptions |-> 0,
     downtimes |-> {0}, ticks |-> 0, drift_limit |-> DriftLimit]

PollStep(p) ==
    \/ poll_once(p)
    \/ resolve_mod_channel(p)
    \/ refresh_modlog_cache(p)
    \/ fetch_reports(p)
    \/ poll_report(p)
    \/ channel_send(p)
    \/ poll_set_discord_message(p)
    \/ poll_save_view(p)
    \/ update_existing_alert(p)
    \/ edit_alert_message(p)
    \/ edit_get_channel(p)
    \/ edit_fetch_message(p)
    \/ edit_message(p)
    \/ edit_save_view(p)
    \/ refresh_unhandled_alerts(p)
    \/ refresh_state(p)
    \/ poll_return(p)

ClearStep(p) ==
    \/ edit_clear_discord_message(p)
    \/ edit_delete_view(p)

ModlogStep(p) ==
    \/ modlog_save(p)
    \/ modlog_update(p)
    \/ modlog_prune(p)

StaleStep(p) ==
    \/ refresh_state_invalid(p)
    \/ refresh_mark_handled(p)

CycleFailure(p) ==
    \/ resolve_mod_channel_none(p)
    \/ fetch_reports_fail(p)
    \/ channel_send_fail(p)
    \/ edit_get_channel_none(p)
    \/ edit_fetch_message_fail(p)
    \/ edit_message_fail(p)
    \/ refresh_state_fail(p)

MarkHandled(m) ==
    \/ handled_button(m)
    \/ apply_message_update(m)
    \/ persist(m)
    \/ apply_mark_handled(m)

\* every step of one caller of _poll_once
PollCycle(p) ==
    \/ PollStep(p)
    \/ poll_lock_acquired(p)
    \/ ClearStep(p)
    \/ CycleFailure(p)

\* Spec: the scheduled loop and /modsync of one tenant with failing
\* collaborators and messages deleted by hand
Init ==
    /\ InitIdle
    /\ settings = [t \in Tenants |-> DefaultSettings]
    /\ env = Scenario

Next ==
    \/ \E p \in Procs : PollStep(p)
    \/ \E p \in Procs : poll_lock_acquired(p)
    \/ \E p \in Procs : ClearStep(p)
    \/ \E p \in Procs : CycleFailure(p)
    \/ \E m \in MsgIds : delete_message(m)

Spec == Init /\ [][Next]_vars

\* SpecFair: Spec where every await of a cycle eventually returns or raises
SpecFair == Spec /\ \A p \in ProcsOf("A") : WF_vars(PollCycle(p))

\* SpecMod: one poll task and moderators pressing Mark Handled
InitMod ==
    /\ InitIdle
    /\ settings = [t \in Tenants |-> DefaultSettings]
    /\ env = [Scenario EXCEPT !.procs = {"loopA"}, !.clicks = MaxClicks]

NextMod ==
    \/ \E p \in Procs : PollStep(p)
    \/ \E m \in MsgIds : MarkHandled(m)

SpecMod == InitMod /\ [][NextMod]_vars

\* SpecModFault: one poll task, moderators pressing Mark Handled, and edits
\* that find the channel or the message gone
NextModFault ==
    \/ \E p \in Procs : PollStep(p)
    \/ \E m \in MsgIds : MarkHandled(m)
    \/ \E p \in Procs : ClearStep(p)
    \/ \E p \in Procs : edit_get_channel_none(p)

SpecModFault == InitMod /\ [][NextModFault]_vars

\* SpecCrash: one poll task, messages deleted by hand, and the process
\* stopped and restarted
InitCrash ==
    /\ InitIdle
    /\ settings = [t \in Tenants |-> DefaultSettings]
    /\ env = [Scenario EXCEPT !.procs = {"loopA"}, !.crashes = MaxCrashes]

NextCrash ==
    \/ \E p \in Procs : PollStep(p)
    \/ \E p \in Procs : ClearStep(p)
    \/ \E m \in MsgIds : delete_message(m)
    \/ crash_restart

SpecCrash == InitCrash /\ [][NextCrash]_vars

\* SpecRecover: one poll task and moderators pressing Mark Handled; the
\* process is stopped, stored views may be damaged while it is down, and it is
\* started again at once or after the stored views have outlived
\* view_store_ttl_hours
InitRecover ==
    /\ InitIdle
    /\ settings = [t \in Tenants |-> DefaultSettings]
    /\ env = [Scenario EXCEPT !.procs = {"loopA"}, !.urls = {"", "http://x"},
                              !.clicks = MaxClicks, !.crashes = MaxCrashes,
                              !.corruptions = MaxCorruptions,
                              !.downtimes = {0, (view_store_ttl_hours + 1) * Hour}]

NextRecover ==
    \/ \E p \in Procs : PollStep(p)
    \/ \E m \in MsgIds : MarkHandled(m)
    \/ stop
    \/ \E m \in MsgIds : corrupt_view(m)
    \/ on_ready

SpecRecover == InitRecover /\ [][NextRecover]_vars

\* SpecOrphan: the process is stopped, setups may be taken out of the
\* configuration and stored views damaged while it is down, and it is started
\* again; the gateway reconnects while it runs
NextOrphan ==
    \/ \E p \in Procs : PollStep(p)
    \/ stop
    \/ \E m \in MsgIds : corrupt_view(m)
    \/ \E m \in MsgIds : remove_setup(m)
    \/ on_ready
    \/ on_ready_reconnect

SpecOrphan == InitRecover /\ [][NextOrphan]_vars

\* SpecRise: one poll task and an item whose report count moves below, to and
\* above its threshold from cycle to cycle, with failing sends, messages
\* deleted by hand and time passing
InitRise ==
    /\ InitIdle
    /\ settings = [t \in Tenants |-> DefaultSettings]
    /\ env = [Scenario EXCEPT !.procs = {"loopA"}, !.nreports = {1, 2, 3},
                              !.lockeds = {FALSE}, !.ticks = MaxTicks]

NextRise ==
    \/ \E p \in Procs : PollStep(p)
    \/ \E p \in Procs : ClearStep(p)
    \/ \E p \in Procs : channel_send_fail(p)
    \/ \E m \in MsgIds : delete_message(m)
    \/ tick

SpecRise == InitRise /\ [][NextRise]_vars

\* SpecClose: the scheduled loop and /modsync of one tenant, and close()
\* called at any moment
InitClose ==
    /\ InitIdle
    /\ settings = [t \in Tenants |-> DefaultSettings]
    /\ env = Scenario

NextClose ==
    \/ \E p \in Procs : PollStep(p)
    \/ \E p \in Procs : poll_lock_acquired(p)
    \/ \E p \in Procs : close_cancel(p)
    \/ store_close
    \/ \E p \in Procs : not_connected(p)

SpecClose == InitClose /\ [][NextClose]_vars

\* SpecFault: the scheduled loop and /modsync of one tenant with failing
\* collaborators and a store whose methods may raise
InitFault ==
    /\ InitIdle
    /\ settings = [t \in Tenants |-> DefaultSettings]
    /\ env = Scenario

NextFault ==
    \/ \E p \in Procs : PollStep(p)
    \/ \E p \in Procs : poll_lock_acquired(p)
    \/ \E p \in Procs : ClearStep(p)
    \/ \E p \in Procs : CycleFailure(p)
    \/ \E p \in Procs : store_failure(p)

SpecFault == InitFault /\ [][NextFault]_vars

\* SpecItems: one poll task and two reported items, with failing sends and a
\* store whose methods may raise
InitItems ==
    /\ InitIdle
    /\ settings = [t \in Tenants |-> DefaultSettings]
    /\ env = [Scenario EXCEPT !.procs = {"loopA"}, !.items = {"t3_a", "t1_b"}]

NextItems ==
    \/ \E p \in Procs : PollStep(p)
    \/ \E p \in Procs : channel_send_fail(p)
    \/ \E p \in Procs : store_failure(p)

SpecItems == InitItems /\ [][NextItems]_vars

\* SpecEdit: one poll task and an item whose report count changes between
\* cycles, with edits of its alert that may fail
InitEdit ==
    /\ InitIdle
    /\ settings = [t \in Tenants |-> DefaultSettings]
    /\ env = [Scenario EXCEPT !.procs = {"loopA"}, !.nreports = {2, 3}]

NextEdit ==
    \/ \E p \in Procs : PollStep(p)
    \/ \E p \in Procs : edit_fetch_message_fail(p)
    \/ \E p \in Procs : edit_message_fail(p)

SpecEdit == InitEdit /\ [][NextEdit]_vars

\* the payload of an alert for item i as an earlier run saved it
SavedPayload(i) ==
    [fullname |-> i, kind |-> kind_of(i), link_url |-> "http://x", title |-> "x",
     num_reports |-> 2, created_utc |-> Day, locked |-> FALSE, handled |-> FALSE,
     action_log |-> <<>>, setup_id |-> "A"]

\* a payload_json written before payloads had a setup_id
WithoutSetupId(d) == [key \in DOMAIN d \ {"setup_id"} |-> d[key]]

\* SpecStale: one poll task started on a database that holds one bound,
\* unhandled alert of an earlier run: a row of the demo service, or an alert
\* for the comment whose payload was saved with or without a setup_id
InitStale ==
    /\ \E i \in {"t3_demo_1", "t1_b"} :
       \E d \in {to_dict(SavedPayload(i)), WithoutSetupId(to_dict(SavedPayload(i)))} :
          /\ i = "t3_demo_1" => "setup_id" \in DOMAIN d
          /\ reported_items =
                [k \in Tenants \X Items |->
                   IF k = <<"A", i>>
                   THEN [guild_id |-> GuildOf("A"), thing_kind |-> kind_of(i),
                         first_reported_at |-> Day, last_seen_at |-> Day,
                         report_count |-> 2, handled |-> FALSE,
                         discord_channel_id |-> ModChannel, discord_message_id |-> 1]
                   ELSE None]
          /\ alert_views = [m \in MsgIds |->
                              IF m = 1
                              THEN [channel_id |-> ModChannel, guild_id |-> GuildOf("A"),
                                    payload |-> d, created_at |-> Day]
                              ELSE None]
          /\ messages = [m \in MsgIds |->
                           IF m = 1
                           THEN [status |-> "live", setup_id |-> "A", fullname |-> i]
                           ELSE NoMessage]
          /\ views_mem = [m \in MsgIds |-> IF m = 1 THEN from_dict(d) ELSE None]
    /\ conn = "open"
    /\ modlog_entries = <<>>
    /\ modlog_state = [t \in Tenants |-> NoStamp]
    /\ mod = [m \in MsgIds |-> NoCallback]
    /\ poll_lock = [t \in Tenants |-> [locked |-> FALSE, waiters |-> <<>>]]
    /\ loc = [p \in Procs |-> NoLocal]
    /\ hist = NoHistory
    /\ now = 2 * Day
    /\ settings = [t \in Tenants |-> DefaultSettings]
    /\ env = [Scenario EXCEPT !.procs = {"loopA"}, !.titles = {"x", "y"}]

NextStale ==
    \/ \E p \in Procs : PollStep(p)
    \/ \E p \in Procs : StaleStep(p)
    \/ \E p \in Procs : refresh_state_fail(p)
    \/ \E p \in Procs : store_failure(p)

SpecStale == InitStale /\ [][NextStale]_vars

\* a call of store.list_unhandled_alerts(setup_id, limit) with any limit
call_list_unhandled_alerts(p) ==
    /\ p \in env.procs
    /\ loc[p].pc = "idle"
    /\ \E limit \in 0..MaxLimit :
         /\ \E refs \in list_unhandled_alerts(reported_items, alert_views,
                                              TenantOf(p), limit) :
              Set(p, [NoLocal EXCEPT !.pc = "listed", !.refs = refs])
         /\ hist' = [hist EXCEPT !.limit[p] = limit]
    /\ UNCHANGED <<store_vars, messages, views_mem, poll_lock, mod, settings, conn, env,
                   now>>

\* the rows reported_items can hold for one item: none, or a row that is
\* handled or not and bound to a message of the channel or to none
StoredRows(t, i) ==
    {None} \cup
    {[guild_id |-> GuildOf(t), thing_kind |-> kind_of(i),
      first_reported_at |-> 0, last_seen_at |-> seen, report_count |-> 1,
      handled |-> handled,
      discord_channel_id |-> IF m = NoId THEN NoId ELSE ModChannel,
      discord_message_id |-> m] :
        seen \in {0, Hour}, handled \in BOOLEAN, m \in MsgIds \cup {NoId}}

\* a store as earlier cycles, callbacks and restarts may have left it: a
\* message id is bound to at most one row, a stored view may be missing for a
\* bound message (pruned) and present for an unbound one
InitList ==
    /\ \E a3 \in StoredRows("A", "t3_a"), a1 \in StoredRows("A", "t1_b"),
          b3 \in StoredRows("B", "t3_a") :
          reported_items = [k \in Tenants \X Items |->
                              CASE k = <<"A", "t3_a">> -> a3
                                [] k = <<"A", "t1_b">> -> a1
                                [] k = <<"B", "t3_a">> -> b3
                                [] OTHER -> None]
    /\ \A j, k \in Tenants \X Items :
          /\ j # k
          /\ reported_items[j] # None
          /\ reported_items[k] # None
          /\ reported_items[j].discord_message_id # NoId
          => reported_items[j].discord_message_id # reported_items[k].discord_message_id
    /\ alert_views \in [MsgIds -> {None, [channel_id |-> ModChannel, guild_id |-> 1,
                                         payload |-> None, created_at |-> 0]}]
    /\ conn = "open"
    /\ modlog_entries = <<>>
    /\ modlog_state = [t \in Tenants |-> NoStamp]
    /\ messages = [m \in MsgIds |-> NoMessage]
    /\ views_mem = [m \in MsgIds |-> None]
    /\ mod = [m \in MsgIds |-> NoCallback]
    /\ poll_lock = [t \in Tenants |-> [locked |-> FALSE, waiters |-> <<>>]]
    /\ loc = [p \in Procs |-> NoLocal]
    /\ settings = [t \in Tenants |-> DefaultSettings]
    /\ env = [Scenario EXCEPT !.procs = {"loopA", "loopB"}]
    /\ now = Day
    /\ hist = NoHistory

NextList == \E p \in Procs : call_list_unhandled_alerts(p)

SpecList == InitList /\ [][NextList]_vars

\* one moderation-log action as subreddit.mod.log yields it
LogAction(target, stamp, line, by_bot) ==
    [target_fullname |-> target, created_utc |-> stamp, line |-> line,
     by_bot |-> by_bot]

\* what subreddit.mod.log may yield, newest first: a log that grows from one
\* action to two, the bot's own action, an action without a usable target, an
\* action without a timestamp, an action older than the cache keeps
ModLogs ==
    LET approve == LogAction("t3_a", Day + 1, "approve", FALSE)
        lock == LogAction("t3_a", Day + 2, "lock", FALSE)
        own == LogAction("t3_a", Day + 3, "own", TRUE)
        site == LogAction("", Day + 3, "wiki", FALSE)
        undated == LogAction("t3_a", 0, "undated", FALSE)
        old == LogAction("t3_a", Day - 1, "old", FALSE)
    IN {<<>>, <<approve>>, <<lock, approve>>, <<own, lock>>, <<site, approve>>,
        <<undated>>, <<approve, old>>}

\* SpecModlog: one poll task with the moderation-log cache on
InitModlog ==
    /\ InitIdle
    /\ settings = [t \in Tenants |->
                     [DefaultSettings EXCEPT !.modlog_fetch_limit = 2]]
    /\ env = [Scenario EXCEPT !.procs = {"loopA"}, !.titles = {"x", "y"},
                              !.logs = ModLogs]

NextModlog ==
    \/ \E p \in Procs : PollStep(p)
    \/ \E p \in Procs : ModlogStep(p)

SpecModlog == InitModlog /\ [][NextModlog]_vars

\* SpecLogFault: one poll task with the moderation-log cache on and a store
\* whose methods may raise
InitLogFault ==
    /\ InitIdle
    /\ settings = [t \in Tenants |->
                     [DefaultSettings EXCEPT !.modlog_fetch_limit = 2]]
    /\ env = [Scenario EXCEPT !.procs = {"loopA"},
                              !.logs = {<<>>,
                                        <<LogAction("t3_a", Day + 1, "approve", FALSE)>>}]

NextLogFault ==
    \/ \E p \in Procs : PollStep(p)
    \/ \E p \in Procs : ModlogStep(p)
    \/ \E p \in Procs : store_failure(p)

SpecLogFault == InitLogFault /\ [][NextLogFault]_vars

\* SpecLoop: the scheduled loop of one tenant with the moderation-log cache
\* on, collaborators whose calls fail without unbinding the alert and a store
\* whose methods may raise; the event loop keeps running the task (`while not self.is_closed()` with a sleep
\* between cycles)
NextLoop ==
    \/ \E p \in Procs : PollStep(p)
    \/ \E p \in Procs : ModlogStep(p)
    \/ \E p \in Procs : resolve_mod_channel_none(p)
    \/ \E p \in Procs : fetch_reports_fail(p)
    \/ \E p \in Procs : channel_send_fail(p)
    \/ \E p \in Procs : edit_fetch_message_fail(p)
    \/ \E p \in Procs : refresh_state_fail(p)
    \/ \E p \in Procs : store_failure(p)

SpecLoop == InitLogFault /\ [][NextLoop]_vars /\ WF_vars(NextLoop)

\* SpecDrift: the scheduled loop of one tenant on a database that holds a
\* bound, unhandled alert for a comment that is no longer reported, while the
\* post is reported; the drift listing is scaled down from 50 rows to 1 and
\* the bound alerts from more than 50 to 2.  The loop keeps running
InitDrift ==
    /\ reported_items =
          [k \in Tenants \X Items |->
             IF k = <<"A", "t1_b">>
             THEN [guild_id |-> GuildOf("A"), thing_kind |-> kind_of("t1_b"),
                   first_reported_at |-> Day, last_seen_at |-> Day,
                   report_count |-> 2, handled |-> FALSE,
                   discord_channel_id |-> ModChannel, discord_message_id |-> 1]
             ELSE None]
    /\ alert_views = [m \in MsgIds |->
                        IF m = 1
                        THEN [channel_id |-> ModChannel, guild_id |-> GuildOf("A"),
                              payload |-> to_dict(SavedPayload("t1_b")),
                              created_at |-> Day]
                        ELSE None]
    /\ messages = [m \in MsgIds |->
                     IF m = 1
                     THEN [status |-> "live", setup_id |-> "A", fullname |-> "t1_b"]
                     ELSE NoMessage]
    /\ views_mem = [m \in MsgIds |-> IF m = 1 THEN SavedPayload("t1_b") ELSE None]
    /\ conn = "open"
    /\ modlog_entries = <<>>
    /\ modlog_state = [t \in Tenants |-> NoStamp]
    /\ mod = [m \in MsgIds |-> NoCallback]
    /\ poll_lock = [t \in Tenants |-> [locked |-> FALSE, waiters |-> <<>>]]
    /\ loc = [p \in Procs |-> NoLocal]
    /\ hist = NoHistory
    /\ now = 2 * Day
    /\ settings = [t \in Tenants |-> DefaultSettings]
    /\ env = [Scenario EXCEPT !.procs = {"loopA"}, !.items = {"t3_a"},
                              !.drift_limit = 1]

NextDrift == \E p \in Procs : PollStep(p)

SpecDrift == InitDrift /\ [][NextDrift]_vars /\ WF_vars(NextDrift)

\* SpecTenants: the poll tasks of two tenants whose subreddits report the
\* same item id, each with its own moderation log
InitTenants ==
    /\ InitIdle
    /\ settings = [t \in Tenants |->
                     [DefaultSettings EXCEPT !.modlog_fetch_limit = 2]]
    /\ env = [Scenario EXCEPT !.procs = {"loopA", "loopB"},
                              !.logs = {<<>>,
                                        <<LogAction("t3_a", Day + 1, "approve", FALSE)>>}]

NextTenants ==
    \/ \E p \in Procs : PollStep(p)
    \/ \E p \in Procs : ModlogStep(p)

SpecTenants == InitTenants /\ [][NextTenants]_vars

\* SpecFilter: the filters of _poll_once applied to one fetched report, for
\* every threshold, age limit, kind, report count and creation time in the
\* bounds; the clock reads MaxHours + 1 hours
InitFilter ==
    /\ InitStore
    /\ now = (MaxHours + 1) * Hour
    /\ \E post \in 1..MaxReports, comment \in 1..MaxReports, hours \in 0..MaxHours :
         settings = [t \in Tenants |->
                       [DefaultSettings EXCEPT !.post_report_threshold = post,
                                               !.comment_report_threshold = comment,
                                               !.max_item_age_hours = hours]]
    /\ env = [Scenario EXCEPT !.procs = {"loopA"}, !.items = {"t3_a", "t1_b"},
                              !.nreports = 0..MaxReports, !.lockeds = {FALSE},
                              !.createds = {now - h * Hour : h \in 1..(MaxHours + 1)}]
    /\ poll_lock = [t \in Tenants |-> [locked |-> t = "A", waiters |-> <<>>]]
    /\ \E reports \in {r \in ReportLists : Len(r) = 1} :
         loc = [p \in Procs |->
                  IF p = "loopA"
                  THEN [NoLocal EXCEPT !.pc = "item", !.reports = reports, !.k = 1]
                  ELSE NoLocal]
    /\ hist = [NoHistory EXCEPT !.ran["loopA"] = "ran"]

NextFilter == \E p \in Procs : poll_report(p)

SpecFilter == InitFilter /\ [][NextFilter]_vars

\* ---------------------------------------------------------------- properties
\* the messages of a (tenant, item) that still exist in the channel
LiveAlerts(k) ==
    {m \in MsgIds : /\ messages[m].status = "live"
                    /\ messages[m].setup_id = k[1]
                    /\ messages[m].fullname = k[2]}

\* the (tenant, item) a caller of _poll_once is working on in its for loop
ItemKey(p) == <<TenantOf(p), loc[p].reports[loc[p].k].fullname>>

\* the item of the for loop went on to should_alert (and was not dropped by a
\* filter) in the step
Kept(p) == loc'[p].pc \in {"send", "update"}

\* a caller of _poll_once leaves the filters of its current item in the step
Filtered(p) == loc[p].pc = "item" /\ loc'[p].pc # "item"

\* C1: for every (tenant, item), at most one message that _poll_once sent for
\* it still exists in the channel, whatever the interleaving of scheduled and
\* manual cycles, failing sends, failing edits and deleted messages.
C1_AtMostOneLiveAlert ==
    \A k \in Tenants \X Items : Cardinality(LiveAlerts(k)) <= 1

\* C2 as stated: should_alert returns true at most once per (tenant, item)
\* unless clear_discord_message was called between the two true results, also
\* when the send after the first true result failed.
C2_TrueOnceUntilCleared ==
    \A k \in Tenants \X Items : ~hist.alerted_twice[k]

\* C2 amended: should_alert returns true exactly while no binding is recorded
\* for the (tenant, item): false from set_discord_message until
\* clear_discord_message, true before the first set_discord_message (so again
\* after a failed send) and after a clear_discord_message.
C2_TrueWhileUnbound ==
    \A p \in Procs :
        /\ loc[p].pc = "send" => ~hist.bound[ItemKey(p)]
        /\ loc[p].pc = "update" => hist.bound[ItemKey(p)]

\* should_alert has returned true a second time with no clear_discord_message
\* in between, and the cycle is about to send
C2_TrueAgainAfterFailedSend ==
    \E p \in Procs : loc[p].pc = "send" /\ hist.alerted_twice[ItemKey(p)]

\* C3: with the process stopped at any point of a cycle and restarted on the
\* same database, no message is sent for an item while an earlier message of
\* that item still exists in the channel.
C3_NoSecondAlertWhileFirstExists ==
    [][\A m \in MsgIds :
          (messages[m].status = "unsent" /\ messages'[m].status = "live")
          => LiveAlerts(<<messages'[m].setup_id, messages'[m].fullname>>) = {}]_vars

\* C4: for each tenant at most one caller of _poll_once (scheduled loop or
\* /modsync) is inside the poll_lock critical section.
C4_OneCycleInLock ==
    \A t \in Tenants :
        Cardinality({p \in Procs : /\ TenantOf(p) = t
                                   /\ loc[p].pc \notin {"idle", "waiting"}}) <= 1

\* one caller is between channel.send and set_discord_message while the other
\* caller of the same tenant waits for the lock
C4_OneSendsOneWaits ==
    \E p, q \in Procs :
        /\ TenantOf(p) = TenantOf(q)
        /\ loc[p].pc = "bind"
        /\ loc[q].pc = "waiting"

\* C5: a call of _poll_once made while a cycle of the tenant is in progress
\* is never finished without having entered the cycle body itself, and a
\* waiting caller (of tenant A, whose tasks run here) eventually gets the
\* lock and finishes a cycle of its own.
C5_WaitsThenRunsOwnCycle ==
    /\ [](\A p \in Procs : loc[p].pc = "idle" => hist.ran[p] # "pending")
    /\ \A p \in ProcsOf("A") :
          (loc[p].pc = "waiting")
              ~> (loc[p].pc = "idle" /\ hist.ran[p] = "ran")

\* a caller that had to wait for the lock works on the reports it fetched
\* itself
C5_WaiterRunsOwnFetch ==
    \E p \in Procs : hist.waited[p] /\ loc[p].pc = "item"

\* C6: once mark_handled has been applied to a (tenant, item), no step of a
\* poll cycle edits the item's message until set_discord_message binds it
\* again.
C6_NoEditWhileHandled == ~hist.edited_held

\* the steps of _edit_alert_message after `if not changed: return`
AfterChangedCheck ==
    {"edit_chan", "edit_fetch", "edit_edit", "edit_clear", "edit_delete", "edit_save"}

\* the diffed fields handed to _edit_alert_message equal the stored payload
\* of the message and the payload to write has no new history line
SameAsStored(e) ==
    LET stored == alert_views[e.message_id].payload IN
    /\ e.new_report # None =>
          /\ e.new_report.title = stored.title
          /\ e.new_report.link_url = stored.link_url
          /\ e.new_report.num_reports = stored.num_reports
          /\ e.new_report.locked = stored.locked
    /\ e.refreshed_state # None =>
          /\ e.refreshed_state.num_reports = stored.num_reports
          /\ e.refreshed_state.locked = stored.locked
    /\ e.payload.action_log = stored.action_log

\* C7: when the diffed fields of a bound, unhandled item (as fetched, or as
\* refresh_state returned them) equal its stored payload and there is no new
\* moderation-history line, the cycle looks up no channel, fetches no message
\* and edits nothing.
C7_NoCallWithoutChange ==
    \A p \in Procs :
        (loc[p].pc \in AfterChangedCheck /\ alert_views[loc[p].edit.message_id] # None)
        => ~SameAsStored(loc[p].edit)

\* _edit_alert_message has returned at `if not changed` for a message whose
\* payload is stored
C7_UnchangedSkipped ==
    /\ hist.unchanged
    /\ \E m \in MsgIds : alert_views[m] # None /\ messages[m].status = "live"

\* C8: with the age filter off, an item is kept exactly when its report count
\* is at least the threshold of its own kind (comment_report_threshold for a
\* comment, post_report_threshold for a submission).
C8_ThresholdOfOwnKind ==
    [][\A p \in Procs :
          LET r == loc[p].reports[loc[p].k]
              s == settings[TenantOf(p)]
          IN (Filtered(p) /\ s.max_item_age_hours = 0)
             => (Kept(p) <=>
                   r.num_reports >= (IF r.kind = "comment"
                                     THEN s.comment_report_threshold
                                     ELSE s.post_report_threshold))]_vars

\* a comment whose report count equals comment_report_threshold and is below
\* post_report_threshold was kept
C8_CommentAtThresholdKept ==
    \E p \in Procs :
        /\ loc[p].pc = "send"
        /\ loc[p].payload.kind = "comment"
        /\ loc[p].payload.num_reports = settings[TenantOf(p)].comment_report_threshold
        /\ loc[p].payload.num_reports < settings[TenantOf(p)].post_report_threshold

\* the report of the for loop passes the threshold of either kind
OverThresholds(p) ==
    /\ loc[p].reports[loc[p].k].num_reports >= settings[TenantOf(p)].post_report_threshold
    /\ loc[p].reports[loc[p].k].num_reports >= settings[TenantOf(p)].comment_report_threshold

C10_WatermarkIsNewestMerged ==
    /\ [](\A t \in Tenants :
            (\A p \in Procs : TenantOf(p) = t => loc[p].pc # "modlog_update")
            => modlog_state[t] = hist.merged[t])
    /\ [][\A t \in Tenants : modlog_state'[t] >= modlog_state[t]]_vars

\* merges with overlapping fetches have been done: both dated actions are
\* cached and the watermark is the timestamp of the newer one
C10_OverlappingMerges ==
    /\ modlog_state["A"] = Day + 2
    /\ Cardinality({n \in 1..Len(modlog_entries) :
                       /\ modlog_entries[n].setup_id = "A"
                       /\ modlog_entries[n].created_utc > 0}) = 2
    /\ loc["loopA"].pc = "modlog_prune"
    /\ loc["loopA"].refs = <<>>

\* C11: the moderation-log table never holds two rows with the same tenant,
\* item, timestamp and line, however often overlapping fetches merge the same
\* entry, and no result of list_modlog_entries for an item, whatever the
\* limit, holds the same (timestamp, line) pair twice.
C11_EntryStoredOnce ==
    /\ \A a, b \in 1..Len(modlog_entries) :
          a # b => modlog_key(modlog_entries[a]) # modlog_key(modlog_entries[b])
    /\ \A t \in Tenants, i \in Items, limit \in 1..3 :
          \A r \in list_modlog_rows(modlog_entries, t, i, NoStamp, limit, now) :
             \A a, b \in 1..Len(r) :
                a # b => <<r[a].created_utc, r[a].line>> # <<r[b].created_utc, r[b].line>>

\* a fetch that overlapped an earlier one was merged: an entry already stored
\* was saved again, and the item has two cached entries to list
C11_OverlappingFetchMerged ==
    /\ hist.remerged
    /\ \E r \in list_modlog_rows(modlog_entries, "A", "t3_a", NoStamp, 3, now) :
          Len(r) >= 2

\* on_ready runs in the step: the stopped process is started again
Restarts ==
    /\ \A p \in Procs : loc[p].pc = "stopped"
    /\ \E p \in Procs : loc'[p].pc # "stopped"

\* C12: the stored row of a message deserializes (from_dict of the saved
\* to_dict) to the payload that was handed to save_view, equal in every field,
\* and every view registered after a restart carries exactly that payload.
C12_RestoredPayloadEqualsSaved ==
    /\ [](\A m \in MsgIds :
            (alert_views[m] # None /\ hist.saved[m] # None)
            => from_dict(alert_views[m].payload) = hist.saved[m])
    /\ [][Restarts =>
            \A m \in MsgIds : views_mem'[m] # None => views_mem'[m] = hist.saved[m]]_vars

\* after a restart the view of a handled alert is registered again with its
\* handled flag, its action log, its setup id and its link URL
C12_HandledViewRestored ==
    /\ hist.readied
    /\ \E m \in MsgIds :
          /\ views_mem[m] # None
          /\ views_mem[m] = hist.saved[m]
          /\ views_mem[m].handled
          /\ views_mem[m].action_log # <<>>
          /\ views_mem[m].setup_id = "A"
          /\ views_mem[m].link_url = "http://x"

\* C13: when on_ready has run, no stored view is left whose payload cannot be
\* deserialized or has an empty fullname, and the poll task of every tenant
\* has been created.
C13_CorruptRowsDeletedStartupContinues ==
    [][Restarts =>
          /\ \A m \in MsgIds :
                alert_views'[m] # None
                => ~(\/ json_loads_raises(alert_views'[m].payload)
                     \/ invalid_view(alert_views'[m]))
          /\ \A p \in PollTasks \cap env.procs : loc'[p].pc = "idle"]_vars

\* C14 as stated: should_alert returns false whenever a record of the (tenant,
\* item) exists, whatever its binding, so every call that finds a record goes
\* on to _update_existing_alert.
C14_TrueOnlyOnFirstSighting ==
    [][\A p \in Procs :
          (Filtered(p) /\ Kept(p) /\ reported_items[ItemKey(p)] # None)
          => loc'[p].pc = "update"]_vars

\* C14 amended: should_alert returns true exactly when no record exists or the
\* record has no bound message, false when a message is bound; it creates the
\* record unbound and unhandled when there is none, and otherwise sets
\* last_seen_at and report_count and leaves first_reported_at, the handled
\* flag and the binding as they are.
C14_TrueWhileNoBoundMessage ==
    [][\A p \in Procs :
          LET row == reported_items[ItemKey(p)]
              after == reported_items'[ItemKey(p)]
              report == loc[p].reports[loc[p].k]
          IN (Filtered(p) /\ Kept(p))
             => /\ loc'[p].pc = "send" <=> (row = None \/ row.discord_message_id = NoId)
                /\ after # None
                /\ after.last_seen_at = now
                /\ after.report_count = report.num_reports
                /\ row = None =>
                      /\ after.first_reported_at = now
                      /\ ~after.handled
                      /\ after.discord_message_id = NoId
                      /\ after.discord_channel_id = NoId
                /\ row # None =>
                      /\ after.first_reported_at = row.first_reported_at
                      /\ after.handled = row.handled
                      /\ after.discord_message_id = row.discord_message_id
                      /\ after.discord_channel_id = row.discord_channel_id]_vars

\* should_alert has returned true for a record created an hour earlier that
\* has no bound message, with a refreshed report count
C14_TrueForExistingUnboundRecord ==
    \E p \in Procs :
        /\ loc[p].pc = "send"
        /\ reported_items[ItemKey(p)].first_reported_at < now
        /\ reported_items[ItemKey(p)].last_seen_at = now
        /\ reported_items[ItemKey(p)].discord_message_id = NoId
        /\ reported_items[ItemKey(p)].report_count = 3

\* the messages ever sent for a (tenant, item)
SentAlerts(k) ==
    {m \in MsgIds : /\ messages[m].status # "unsent"
                    /\ messages[m].setup_id = k[1]
                    /\ messages[m].fullname = k[2]}

\* C19 as stated: an item first polled below its threshold has a record from
\* that sighting on and never receives an alert, also after it reaches the
\* threshold.
C19_BelowThresholdSuppressesAlert ==
    \A k \in Tenants \X Items :
        hist.below_first[k] => (reported_items[k] # None /\ SentAlerts(k) = {})

\* C19 amended: should_alert is called only for an item that passes both
\* filters, so a sighting below the threshold of the item's kind creates and
\* changes no record, and the first sighting that passes the filters finds no
\* record and goes on to send the alert.
C19_NoRecordBelowThreshold ==
    [][\A p \in Procs :
          LET report == loc[p].reports[loc[p].k]
              s == settings[TenantOf(p)]
          IN Filtered(p)
             => /\ report.num_reports < threshold_of(report.kind, s)
                   => (~Kept(p) /\ reported_items' = reported_items)
                /\ (Kept(p) /\ reported_items[ItemKey(p)] = None)
                   => loc'[p].pc = "send"]_vars

\* an item first polled below its threshold has reached it and its alert has
\* been sent and bound
C19_AlertAfterRisingToThreshold ==
    \E k \in Tenants \X Items :
        /\ hist.below_first[k]
        /\ reported_items[k] # None
        /\ reported_items[k].discord_message_id # NoId
        /\ LiveAlerts(k) = {reported_items[k].discord_message_id}

\* C15: clear_discord_message (and the delete_view after it) is called only
\* after discord.NotFound; a Forbidden or HTTPException raised while the
\* channel is resolved, the message fetched or the message edited leaves the
\* binding and the stored view as they are.
C15_ClearedOnlyWhenNotFound ==
    \A p \in Procs :
       loc[p].pc \in {"edit_clear", "edit_delete"} => loc[p].edit.err = "NotFound"

\* C16: list_unhandled_alerts(tenant, limit) returns at most limit rows; each
\* is a row of that tenant that is not handled and has a channel id and a
\* message id bound (the ids returned); no handled row, unbound row or row of
\* another tenant is returned.
C16_ListsBoundUnhandledOfTenant ==
    \A p \in Procs :
       loc[p].pc = "listed" =>
          /\ Len(loc[p].refs) <= hist.limit[p]
          /\ \A n \in 1..Len(loc[p].refs) :
                LET ref == loc[p].refs[n]
                    row == reported_items[<<TenantOf(p), ref.fullname>>]
                IN /\ row # None
                   /\ ~row.handled
                   /\ ref.message_id # NoId
                   /\ ref.channel_id # NoId
                   /\ row.discord_message_id = ref.message_id
                   /\ row.discord_channel_id = ref.channel_id
                   /\ \A k \in Tenants \X Items :
                         /\ k[1] # TenantOf(p)
                         /\ reported_items[k] # None
                         => reported_items[k].discord_message_id # ref.message_id

\* tenant A holds a handled bound row and a bound unhandled row, tenant B an
\* unbound row; the call returned the one unhandled row of tenant A
C16_HandledAndForeignRowsLeftOut ==
    /\ loc["loopA"].pc = "listed"
    /\ Len(loc["loopA"].refs) = 1
    /\ loc["loopA"].refs[1].fullname = "t3_a"
    /\ reported_items[<<"A", "t1_b">>] # None
    /\ reported_items[<<"A", "t1_b">>].handled
    /\ reported_items[<<"A", "t1_b">>].discord_message_id # NoId
    /\ alert_views[reported_items[<<"A", "t1_b">>].discord_message_id] # None
    /\ reported_items[<<"B", "t3_a">>] # None
    /\ ~reported_items[<<"B", "t3_a">>].handled

\* C17: close() cancels every poll task and waits for it before it closes
\* the store, so no step of a poll cycle calls a store method after the
\* store was closed.
C17_NoStoreCallAfterClose == ~hist.after_close

\* the poll tasks have finished when the store is closed
PollTasksDoneAtClose ==
    conn = "closed" => \A p \in PollTasks \cap env.procs : loc[p].pc = "cancelled"

\* a /modsync cycle that returned reports the number of alerts it sent and
\* bound
SyncCountIsNewlyBound ==
    \A p \in Procs \ PollTasks :
       loc[p].pc = "idle" /\ ~loc[p].raised => loc[p].posted = hist.newly_bound[p]

\* C20: /modsync reports per tenant the number of alerts newly sent and bound
\* in its cycle, and a cycle that fails (channel unresolved, fetch_reports
\* failure, store failure in mid-cycle) reports zero and raises nothing to
\* the caller.
C20_SyncReportsCountAndNeverRaises ==
    /\ SyncCountIsNewlyBound
    /\ \A p \in Procs \ PollTasks : ~loc[p].raised

\* what the store holds for one tenant: its dedup records, its
\* moderation-log entries and its watermark
TenantRows(t) ==
    <<[i \in Items |-> reported_items[<<t, i>>]],
      SelectSeq(modlog_entries, LAMBDA e : e.setup_id = t),
      modlog_state[t]>>

\* C18: a step of a poll cycle of one tenant leaves the dedup records, the
\* moderation-log entries and the watermark of every other tenant unchanged;
\* an item id sighted by two tenants has a record of its own in each, bound
\* to an alert of its own.
C18_TenantsIndependent ==
    /\ [][\A t \in Tenants :
            (\A p \in ProcsOf(t) : loc'[p] = loc[p]) => TenantRows(t)' = TenantRows(t)]_vars
    /\ [](\A i \in Items, t \in Tenants :
            LET row == reported_items[<<t, i>>] IN
            row # None /\ row.discord_message_id # NoId =>
               /\ row.guild_id = GuildOf(t)
               /\ messages[row.discord_message_id].setup_id = t
               /\ messages[row.discord_message_id].fullname = i
               /\ \A u \in Tenants \ {t} :
                     reported_items[<<u, i>>] # None =>
                        reported_items[<<u, i>>].discord_message_id
                            # row.discord_message_id)

\* both tenants hold a record of t3_a bound to a live alert of their own,
\* and moderation-log entries and a watermark of their own
C18_SameItemAlertedInBothTenants ==
    /\ \A t \in Tenants :
          /\ reported_items[<<t, "t3_a">>] # None
          /\ reported_items[<<t, "t3_a">>].discord_message_id # NoId
          /\ messages[reported_items[<<t, "t3_a">>].discord_message_id].status = "live"
          /\ modlog_state[t] # NoStamp
          /\ \E n \in 1..Len(modlog_entries) : modlog_entries[n].setup_id = t
    /\ reported_items[<<"A", "t3_a">>].discord_message_id
          # reported_items[<<"B", "t3_a">>].discord_message_id

\* the step is a channel.send of caller p that raised
SendFailed(p) ==
    /\ loc[p].pc = "send"
    /\ loc'[p] # loc[p]
    /\ loc'[p].pc # "bind"

\* the for loop of caller p is at an item that passes the filters and whose
\* record, if any, has no bound message
AtUnboundItem(p) ==
    LET row == reported_items[<<TenantOf(p), loc[p].reports[loc[p].k].fullname>>]
    IN /\ loc[p].pc = "item"
       /\ StoreCall(p)
       /\ row = None \/ row.discord_message_id = NoId

\* C21: a failed send of a new alert writes no binding and no ViewRecord and
\* the loop goes on with the next fetched item; an item that is reported
\* again, passes the filters and has no bound message is treated as a new
\* alert (a send is attempted).
C21_FailedSendSkipsItemAndRetries ==
    [][\A p \in Procs :
          /\ SendFailed(p) =>
                /\ reported_items' = reported_items
                /\ alert_views' = alert_views
                /\ messages' = messages
                /\ loc'[p] = NextReport(loc[p])
          /\ AtUnboundItem(p) /\ loc'[p] # loc[p] /\ loc'[p].pc # "idle" =>
                /\ loc'[p].pc = "send"
                /\ loc'[p].payload.fullname = loc[p].reports[loc[p].k].fullname]_vars

\* no message was ever sent; should_alert has returned true for t3_a in an
\* earlier cycle and again in a later one, and the loop has gone on to send
\* t1_b
C21_SecondItemSentAfterFailedSends ==
    /\ \A m \in MsgIds : messages[m].status = "unsent"
    /\ loc["loopA"].pc = "send"
    /\ loc["loopA"].payload.fullname = "t1_b"
    /\ Len(loc["loopA"].reports) = 2
    /\ reported_items[<<"A", "t3_a">>] # None
    /\ hist.alerted_twice[<<"A", "t3_a">>]

\* C22: a store failure while one fetched item is processed (should_alert,
\* get_alert_message, set_discord_message, save_view) ends the processing of
\* that item only; the cycle goes on with the remaining items and the drift
\* refresh.
C22_StoreFailureAbortsItemOnly ==
    [][\A p \in Procs :
          loc[p].pc \in {"item", "bind", "save", "update", "edit_load", "edit_save"}
          /\ loc'[p] # loc[p]
          => loc'[p].pc \in {"item", "send", "bind", "save", "update", "edit_load",
                             "edit_chan", "edit_save", "drift", "refresh", "return"}]_vars

\* C23: set_discord_message writes the id of the message that channel.send
\* returned for that item in the same cycle; every message id stored in a
\* dedup record is the id of a message that was sent for that item.
C23_BoundIdIsSentMessage ==
    /\ [][\A k \in Tenants \X Items :
            LET id == reported_items'[k].discord_message_id IN
            /\ reported_items'[k] # None
            /\ id # NoId
            /\ (reported_items[k] = None \/ reported_items[k].discord_message_id # id)
            => \E p \in ProcsOf(k[1]) :
                  /\ loc[p].pc = "bind"
                  /\ loc[p].sent = id
                  /\ loc[p].payload.fullname = k[2]]_vars
    /\ [](\A k \in Tenants \X Items :
            reported_items[k] # None /\ reported_items[k].discord_message_id # NoId =>
               LET message == messages[reported_items[k].discord_message_id] IN
               /\ message.status # "unsent"
               /\ message.setup_id = k[1]
               /\ message.fullname = k[2])

\* both items are bound, each to the message sent for it
C23_BothItemsBoundToOwnMessage ==
    /\ reported_items[<<"A", "t3_a">>] # None
    /\ reported_items[<<"A", "t1_b">>] # None
    /\ reported_items[<<"A", "t3_a">>].discord_message_id # NoId
    /\ reported_items[<<"A", "t1_b">>].discord_message_id # NoId
    /\ messages[reported_items[<<"A", "t1_b">>].discord_message_id].fullname = "t1_b"

\* C24: after a successful send, set_discord_message leaves the record bound
\* to the channel id and message id of the sent message with handled false;
\* after save_view a ViewRecord keyed by the message id holds the item's
\* payload (the payload object of the attached view) with the tenant's
\* setup_id, and posted has grown by one.
C24_SentAlertBoundSavedCounted ==
    [][\A p \in Procs :
          LET l == loc[p]
              t == TenantOf(p)
          IN
          /\ l.pc = "bind" /\ loc'[p].pc = "save" =>
                LET row == reported_items'[<<t, l.payload.fullname>>] IN
                /\ row # None
                /\ row.discord_channel_id = ModChannel
                /\ row.discord_message_id = l.sent
                /\ ~row.handled
          /\ l.pc = "save" /\ loc'[p] # l /\ loc'[p].pc # "idle" =>
                LET row == reported_items'[<<t, l.payload.fullname>>]
                    record == alert_views'[l.sent]
                IN
                /\ row # None /\ row.discord_message_id = l.sent
                /\ record # None
                /\ record.channel_id = ModChannel
                /\ from_dict(record.payload) = views_mem[l.sent]
                /\ record.payload.title = l.payload.title
                /\ record.payload.num_reports = l.payload.num_reports
                /\ record.payload.setup_id = t
                /\ record.payload.fullname = l.payload.fullname
                /\ loc'[p].posted = l.posted + 1]_vars

\* a cycle has sent, bound and saved two alerts
C24_TwoAlertsPosted ==
    /\ loc["loopA"].posted = 2
    /\ \A m \in MsgIds : alert_views[m] # None /\ messages[m].status = "live"
    /\ \A i \in {"t3_a", "t1_b"} : reported_items[<<"A", i>>] # None
                          /\ reported_items[<<"A", i>>].discord_message_id # NoId

\* C25: a new alert of a tenant whose modlog_fetch_limit is greater than zero
\* is sent with the cached moderation-history lines of its item (at most the
\* fetch limit, oldest first) appended to the action_log of its payload.
C25_NewAlertCarriesCachedHistory ==
    \A p \in Procs :
       LET t == TenantOf(p)
           s == settings[t]
       IN loc[p].pc = "send" /\ s.modlog_fetch_limit > 0 =>
             loc[p].payload.action_log \in
                 list_modlog_entries(modlog_entries, t, loc[p].payload.fullname,
                                     NoStamp, s.modlog_fetch_limit, now)

\* the payload stored for the message caller p is about to update
StoredPayload(p) == from_dict(alert_views[loc[p].edit.message_id].payload)

\* C26: for a bound, unhandled item of the fetch that passed the filters, a
\* difference in a diffed field between the report and the payload last
\* rendered (the stored ViewRecord) makes the cycle edit the message in place
\* with the report's values and then persist the edited payload as the
\* ViewRecord of the same message.
C26_ChangedReportEditedThenSaved ==
    [][\A p \in Procs :
          LET l == loc[p]
              e == l.edit
          IN
          /\ (/\ l.pc = "edit_load" /\ e.new_report # None
              /\ loc'[p] # l /\ loc'[p].pc # "idle"
              /\ alert_views[e.message_id] # None
              /\ \/ StoredPayload(p).title # e.new_report.title
                 \/ StoredPayload(p).link_url # e.new_report.link_url
                 \/ StoredPayload(p).num_reports # e.new_report.num_reports
                 \/ StoredPayload(p).locked # e.new_report.locked)
             => /\ loc'[p].pc = "edit_chan"
                /\ loc'[p].edit.message_id = e.message_id
                /\ loc'[p].edit.payload.title = e.new_report.title
                /\ loc'[p].edit.payload.link_url = e.new_report.link_url
                /\ loc'[p].edit.payload.num_reports = e.new_report.num_reports
                /\ loc'[p].edit.payload.locked = e.new_report.locked
                /\ loc'[p].edit.payload.fullname = StoredPayload(p).fullname
          /\ (l.pc = "edit_edit" /\ e.new_report # None /\ loc'[p].pc = "edit_save")
             => /\ views_mem'[e.message_id] = e.payload
                /\ messages' = messages
                /\ alert_views' = alert_views
          /\ (l.pc = "edit_save" /\ e.new_report # None /\ loc'[p].pc # "edit_save"
                                /\ alert_views' # alert_views)
             => /\ from_dict(alert_views'[e.message_id].payload) = e.payload
                /\ reported_items' = reported_items
                /\ loc'[p] = NextReport(l)]_vars

\* the alert was sent with two reports; the item was fetched with three, its
\* message edited, and the payload with three reports is about to be saved
C26_EditedReportCountBeforeSave ==
    /\ loc["loopA"].pc = "edit_save"
    /\ loc["loopA"].edit.new_report # None
    /\ loc["loopA"].edit.before.num_reports = 2
    /\ views_mem[loc["loopA"].edit.message_id].num_reports = 3
    /\ StoredPayload("loopA").num_reports = 2

\* the step is a message.edit of caller p that raised Forbidden or another
\* HTTPException while the message exists
EditFailed(p) ==
    /\ loc[p].pc = "edit_edit"
    /\ messages[loc[p].edit.message_id].status = "live"
    /\ loc'[p] # loc[p]
    /\ loc'[p].pc # "edit_save"

\* C30: a failed edit of a bound message keeps the binding and leaves the
\* ViewRecord as it is, so the difference is computed against the same stored
\* payload in the next cycle and the edit is issued again; an edit is issued
\* only for a payload that differs from the stored one, and after a
\* successful edit the ViewRecord equals the rendered payload.
C30_FailedEditKeepsBindingAndView ==
    /\ [][\A p \in Procs :
            /\ EditFailed(p) =>
                  /\ reported_items' = reported_items
                  /\ alert_views' = alert_views
                  /\ views_mem' = views_mem
                  /\ loc'[p] = EditReturn(loc[p])
            /\ (loc[p].pc = "edit_save" /\ loc'[p].pc # "edit_save"
                                       /\ alert_views' # alert_views)
               => from_dict(alert_views'[loc[p].edit.message_id].payload)
                     = views_mem'[loc[p].edit.message_id]]_vars
    /\ [](\A p \in Procs :
            loc[p].pc \in {"edit_chan", "edit_fetch", "edit_edit"} =>
               /\ loc[p].edit.payload # loc[p].edit.before
               /\ alert_views[loc[p].edit.message_id] # None
                     => loc[p].edit.before = StoredPayload(p))

\* an earlier cycle saw the item with three reports and its edit failed (the
\* stored payload still has two, the binding is kept); the item is fetched
\* with three reports again
C30_SameDifferenceFetchedAgain ==
    LET l == loc["loopA"]
        row == reported_items[<<"A", "t3_a">>]
    IN /\ l.pc = "item"
       /\ l.reports[l.k].fullname = "t3_a"
       /\ l.reports[l.k].num_reports = 3
       /\ row # None
       /\ row.report_count = 3
       /\ row.discord_message_id # NoId
       /\ alert_views[row.discord_message_id] # None
       /\ from_dict(alert_views[row.discord_message_id].payload).num_reports = 2
       /\ views_mem[row.discord_message_id].num_reports = 2

DriftEditSaved(p) ==
    /\ loc[p].pc = "edit_save"
    /\ loc[p].edit.refreshed_state # None
    /\ alert_views[loc[p].edit.message_id] # None
    /\ loc'[p] # loc[p]
    /\ alert_views' # alert_views

\* the fields of the model's payload that the merge of a refreshed state
\* never writes, setup_id aside
SameUnlistedFields(old, new) ==
    /\ new.fullname = old.fullname
    /\ new.kind = old.kind
    /\ new.title = old.title
    /\ new.link_url = old.link_url
    /\ new.created_utc = old.created_utc
    /\ new.handled = old.handled
    /\ new.action_log = old.action_log

C29_InvalidFullnameMarkedHandled ==
    /\ [][\A p \in Procs :
            LET l == loc[p]
                t == TenantOf(p)
                fullname == l.refs[l.r].fullname
            IN
            /\ (l.pc = "refresh" /\ ~valid_fullname(fullname) /\ loc'[p] # l)
               => loc'[p] = [l EXCEPT !.pc = "mark"] /\ store_vars' = store_vars
            /\ (l.pc = "mark" /\ loc'[p] # l)
               => /\ loc'[p] = NextRef(l)
                  /\ \/ reported_items' = mark_handled(reported_items, fullname, t)
                     \/ reported_items' = reported_items
                  /\ alert_views' = alert_views
            /\ (l.pc = "refresh" /\ valid_fullname(fullname) /\ loc'[p] # l
                                /\ loc'[p].pc # "edit_load")
               => /\ loc'[p] = NextRef(l)
                  /\ store_vars' = store_vars
                  /\ ~reported_items'[<<t, fullname>>].handled
                  /\ reported_items'[<<t, fullname>>].discord_message_id
                        = l.refs[l.r].message_id]_vars
    /\ [](\A p \in Procs :
            loc[p].pc \in {"refresh", "mark"} =>
               ~reported_items[<<TenantOf(p), loc[p].refs[loc[p].r].fullname>>].handled)

\* the row of the demo service was marked handled in an earlier cycle and is
\* still bound; a later drift refresh lists the post alone
C29_StaleRowHandledPostRefreshed ==
    LET l == loc["loopA"]
        row == reported_items[<<"A", "t3_demo_1">>]
    IN /\ row # None
       /\ row.handled
       /\ row.discord_message_id = 1
       /\ l.pc = "refresh"
       /\ Len(l.refs) = 1
       /\ l.refs[1].fullname = "t3_a"

ModlogPcs == {"modlog", "modlog_save", "modlog_update", "modlog_prune"}

\* C31: no step of _refresh_modlog_cache, failed or not, changes the dedup
\* records, the stored views, the messages or the posted count, and each of
\* them leads on to the report fetch; for a fetched item, whether an alert is
\* sent, the dedup record written and the payload sent (its history aside)
\* are determined by the report and the dedup record alone.
C31_ModlogNeverDecidesDedup ==
    [][\A p \in Procs :
          LET l == loc[p]
              t == TenantOf(p)
          IN
          /\ (l.pc \in ModlogPcs /\ loc'[p] # l)
             => /\ loc'[p].pc \in ModlogPcs \cup {"fetch"}
                /\ loc'[p].posted = l.posted
                /\ reported_items' = reported_items
                /\ alert_views' = alert_views
                /\ messages' = messages
                /\ views_mem' = views_mem
                /\ poll_lock' = poll_lock
          /\ (l.pc = "item" /\ loc'[p] # l /\ loc'[p].pc # "idle")
             => LET report == l.reports[l.k]
                    payload == from_reported_item(report, t)
                    row == reported_items[<<t, report.fullname>>]
                    kept == passes_age(payload, settings[t], now)
                            /\ passes_threshold(payload, settings[t])
                IN /\ loc'[p].pc = "send" <=> (kept /\ should_alert_result(row))
                   /\ loc'[p].pc = "update" <=> (kept /\ ~should_alert_result(row))
                   /\ kept => reported_items' =
                         should_alert_rows(reported_items, report, t, GuildOf(t), now)
                   /\ ~kept => reported_items' = reported_items
                   /\ loc'[p].pc = "send" =>
                         [loc'[p].payload EXCEPT !.action_log = <<>>] = payload
                   /\ modlog_entries' = modlog_entries]_vars

\* the batch was saved but the watermark could not be written (the cache
\* refresh failed), and the alert of this cycle has been sent
C31_AlertSentAfterFailedCacheRefresh ==
    /\ modlog_state["A"] = NoStamp
    /\ \E n \in 1..Len(modlog_entries) :
          modlog_entries[n].setup_id = "A" /\ modlog_entries[n].created_utc > 0
    /\ loc["loopA"].pc = "bind"
    /\ messages[loc["loopA"].sent].status = "live"

\* C32: when a moderation-log refresh that merged a batch completes, the
\* watermark is the newest timestamp of the batch, written after the entries
\* were saved, and no entry of the tenant older than the retention window
\* (any window of 1..MaxAgeDays days) is left in the cache.
C32_MergeAdvancesWatermarkThenPrunes ==
    [][\A p \in Procs :
          LET l == loc[p]
              t == TenantOf(p)
          IN
          /\ (l.pc = "modlog_update" /\ loc'[p] # l /\ newest_of(l.refs) # NoStamp)
             => /\ modlog_state'[t] = newest_of(l.refs)
                /\ modlog_entries = save_modlog_entries(modlog_entries, t, l.refs)
          /\ (l.pc = "modlog_save" /\ loc'[p] # l) => modlog_state' = modlog_state
          /\ (l.pc = "modlog_prune" /\ loc'[p].pc = "fetch")
             => \A days \in 1..MaxAgeDays, n \in 1..Len(modlog_entries') :
                   modlog_entries'[n].setup_id = t
                   => modlog_entries'[n].created_utc >= now - days * Day]_vars

\* the step is on_ready of a stopped process
Recovery ==
    /\ \A p \in Procs : loc[p].pc = "stopped"
    /\ loc' # loc

\* the setup that owns a stored view: the payload's setup_id, else the row's
\* guild id as text
OwnerOf(record) ==
    IF Get(record.payload, "setup_id", "") # "" THEN record.payload.setup_id
    ELSE GuildStr(record.guild_id)

\* a stored view whose payload deserializes and names an item
Deserializable(record) ==
    /\ record.payload \notin {InvalidJson, JsonList}
    /\ Get(record.payload, "fullname", "") # ""

\* C33: restart recovery leaves every stored view as it is or deletes it, and
\* deletes only expired rows and rows whose payload does not deserialize or
\* has an empty item id; a row with a valid payload whose setup has no
\* runtime is still stored after recovery, and no view is registered for it.
C33_UnownedViewRowKept ==
    [][Recovery =>
         \A m \in MsgIds :
            LET record == alert_views[m]
                expired == record.created_at < now' - view_store_ttl_hours * Hour
            IN record # None =>
                 /\ alert_views'[m] \in {None, record}
                 /\ alert_views'[m] = None => (expired \/ ~Deserializable(record))
                 /\ (Deserializable(record) /\ ~expired /\ OwnerOf(record) \notin Tenants)
                    => (alert_views'[m] = record /\ views_mem'[m] = None)]_vars

\* the process is running again; the view row of a setup without a runtime is
\* in the store and no view is registered for its message
C33_RowOfRemovedSetupAfterRestart ==
    /\ hist.readied
    /\ loc["loopA"].pc # "stopped"
    /\ \E m \in MsgIds :
          /\ alert_views[m] # None
          /\ Deserializable(alert_views[m])
          /\ OwnerOf(alert_views[m]) = "gone"
          /\ views_mem[m] = None
          /\ messages[m].status = "live"

\* sequence a is a prefix of sequence b
IsPrefix(a, b) == Len(a) <= Len(b) /\ SubSeq(b, 1, Len(a)) = a

\* C34: every save of the ViewRecord of a message, by a poll-cycle edit or by
\* a moderator callback, writes an action_log that has the action_log stored
\* before as a prefix.
C34_StoredActionLogAppendOnly ==
    [][\A m \in MsgIds :
          (alert_views[m] # None /\ alert_views'[m] # None)
          => IsPrefix(from_dict(alert_views[m].payload).action_log,
                      from_dict(alert_views'[m].payload).action_log)]_vars

\* C35: should_alert does not return true for a record whose handled flag is
\* set, so no new message is sent for an item a moderator marked handled.
C35_HandledRecordNeverReAlerted ==
    [][\A p \in Procs :
          LET l == loc[p]
              row == reported_items[<<TenantOf(p), l.reports[l.k].fullname>>]
          IN (l.pc = "item" /\ loc'[p] # l /\ row # None /\ row.handled)
             => loc'[p].pc # "send"]_vars

\* C36: whatever fails inside a cycle of the scheduled loop, the cycle ends
\* and the loop starts another one: the task is inside _poll_once again and
\* again, and between cycles again and again.
C36_LoopKeepsCycling ==
    /\ (loc["loopA"].pc # "idle") ~> (loc["loopA"].pc = "idle")
    /\ (loc["loopA"].pc = "idle") ~> (loc["loopA"].pc = "resolve")

\* a cycle was left by a store failure after its alert was sent (the message
\* is unbound and has no stored view), and the loop is in its next cycle
C36_CycleAfterFailedCycle ==
    /\ loc["loopA"].pc = "fetch"
    /\ messages[1].status = "live"
    /\ alert_views[1] = None
    /\ reported_items[<<"A", "t3_a">>] # None
    /\ reported_items[<<"A", "t3_a">>].discord_message_id = NoId

\* C37: in a poll cycle every fetched report whose item is bound and unhandled
\* is compared with its stored alert (the cycle goes on to
\* _update_existing_alert), also when the report now fails the age or
\* threshold filter; a fetched item is in seen_fullnames, so the drift refresh
\* does not reach it.
C37_BoundFetchedItemCompared ==
    [][\A p \in PollTasks :
         LET l == loc[p]
             key == <<TenantOf(p), l.reports[l.k].fullname>>
         IN (/\ l.pc = "item"
             /\ loc'[p] # l
             /\ reported_items[key] # None
             /\ reported_items[key].discord_message_id # NoId
             /\ ~reported_items[key].handled)
            => loc'[p].pc = "update"]_vars

\* C38: when no poll cycle and no moderator callback is running, the stored
\* ViewRecord of a message whose dedup record is handled has handled = true:
\* a poll-cycle edit that was in flight while Mark Handled ran has not written
\* an unhandled payload over the handled one.
C38_HandledRecordHasHandledPayload ==
    \A m \in MsgIds :
       LET key == <<messages[m].setup_id, messages[m].fullname>> IN
       (/\ \A p \in Procs : loc[p].pc = "idle"
        /\ \A n \in MsgIds : mod[n].pc = "idle"
        /\ messages[m].status = "live"
        /\ alert_views[m] # None
        /\ reported_items[key] # None
        /\ reported_items[key].discord_message_id = m
        /\ reported_items[key].handled)
       => from_dict(alert_views[m].payload).handled

\* C39: in one process, however many times on_ready fires, store.connect is
\* called at most once, _restore_views runs at most once and at most one poll
\* task is created for a runtime.
C39_StartupOncePerProcess ==
    /\ hist.startup.connects <= 1
    /\ hist.startup.restores <= 1
    /\ hist.startup.poll_tasks <= 1

\* on_ready has fired again in a process that was restarted and whose poll
\* task is inside a cycle
C39_ReconnectWhilePolling ==
    /\ hist.reconnected
    /\ hist.readied
    /\ hist.startup = Started(1)
    /\ loc["loopA"].pc = "item"

\* C40: an unhandled bound item that stays absent from the report fetch is
\* drift-refreshed again and again: while its record is bound and unhandled, a
\* later cycle calls refresh_state for it, however many other unhandled bound
\* items the tenant has.
C40_AbsentBoundItemEventuallyRefreshed ==
    (/\ reported_items[<<"A", "t1_b">>] # None
     /\ reported_items[<<"A", "t1_b">>].discord_message_id # NoId
     /\ ~reported_items[<<"A", "t1_b">>].handled)
    ~> (/\ loc["loopA"].pc = "refresh"
        /\ loc["loopA"].refs[loc["loopA"].r].fullname = "t1_b")


====
